---- MODULE Spec2Model ----
(***************************************************************************)
(* Model of the per-session turn engine of codex-rs/core/src/codex.rs:     *)
(* the submission loop, the agent tasks it spawns (run_task and            *)
(* run_compact_task), the retrying turn (run_turn / try_run_turn), the     *)
(* exec approval path and the recording of items to history and rollout.   *)
(*                                                                         *)
(* Granularity.  The submission loop and every task run on a work-stealing *)
(* pool, so they interleave at the level of single accesses to shared      *)
(* state (one critical section of Session::state, one send on tx_event,    *)
(* one enqueue on the rollout channel).  A task's position `pc` names the  *)
(* next such access.  Local computation is merged into the access that     *)
(* follows it.                                                             *)
(*                                                                         *)
(* Cancellation.  AbortHandle::abort() is cooperative: it marks the task   *)
(* and the task is dropped when it is suspended at an await.  A task that  *)
(* is being polled while abort() runs keeps running until its next await   *)
(* that suspends.  `aborted` is the mark, SuspendPcs are the awaits that   *)
(* can suspend, Die is the drop.                                           *)
(***************************************************************************)
EXTENDS Integers, Sequences, FiniteSets, TLC

\* Bounds of the model.
MaxSubs == 3            \* sub_ids the session can hand out
MaxProv == 4            \* responses the provider gives (stream opens and events)
SessionSubs == 2        \* submissions the front-end sends when every action is enabled
StreamMaxRetries == 1   \* provider.stream_max_retries(), a configuration value
MaxReadyAwaits == 0     \* awaits an aborted task finds ready before it is dropped

SubIds == 1..MaxSubs
NoTask == 0

VARIABLES
    current_task,       \* State::current_task: NoTask or the sub_id of the task
    pending_approvals,  \* State::pending_approvals: the sub_ids that have an entry
    pending_input,      \* State::pending_input
    approved_commands,  \* State::approved_commands
    history,            \* State::history
    rollout,            \* lines enqueued to the rollout writer, in order
    events,             \* events sent on tx_event, in order
    detached,           \* events held by detached sender tasks (AgentTask::abort)
    tasks,              \* the spawned tasks, by sub_id
    loop,               \* position of submission_loop
    nsub,               \* submissions received so far (Codex::next_id)
    nprov,              \* provider responses so far
    token_info,         \* State::token_info: the tokens the session has accounted for
    usage,              \* the tokens the provider has reported in Completed events
                        \* (history variable)
    budget,             \* how many submissions, provider responses and ready awaits a run has
    approval_policy,    \* TurnContext::approval_policy of the session's turns
    pure,               \* the function applied outside a session, its arguments and result
    recorder,           \* Session::rollout, the handle of the rollout writer, and
                        \* whether the writer has written all that was enqueued
    call_log            \* per shell call: its assessment, the decision received for
                        \* it, the failure output returned (history variable)

vars == <<current_task, pending_approvals, pending_input, approved_commands,
          history, rollout, events, detached, tasks, loop, nsub, nprov, budget, approval_policy, token_info, usage, pure,
          recorder, call_log>>

----------------------------------------------------------------------------
\* Response items (codex_protocol::models::ResponseItem), reduced to the
\* fields the engine inspects: the variant, the call_id, the role / tool
\* name / output content, and the command.
Item(k, c, t, a) == [kind |-> k, cid |-> c, tag |-> t, arg |-> a]
NoItem == Item("None", 0, "", "")
UserMsg(n) == Item("Message", n, "user", "")
EnvContext == Item("Message", 0, "user", "env")
AssistantMsg == Item("Message", 0, "assistant", "")
StateSnapshot(t) == Item("StateSnapshot", t, "", "")
FunctionCallOutput(c, content) == Item("FunctionCallOutput", c, content, "")
CustomToolCallOutput(c, content) == Item("CustomToolCallOutput", c, content, "")

Cmds == {"cmd"}

Event(id, msg, c) == [id |-> id, msg |-> msg, cid |-> c]

CallKinds == {"FunctionCall", "LocalShellCall", "CustomToolCall"}
OutputKinds == {"FunctionCallOutput", "CustomToolCallOutput"}

RECURSIVE FilterSeq(_, _)
FilterSeq(s, keep) ==
    IF s = <<>> THEN <<>>
    ELSE IF keep[Head(s).kind] THEN <<Head(s)>> \o FilterSeq(Tail(s), keep)
    ELSE FilterSeq(Tail(s), keep)

AllKinds == CallKinds \cup OutputKinds \cup
            {"Message", "Reasoning", "WebSearchCall", "SubAgentStart",
             "SubAgentEnd", "Other", "StateSnapshot", "None"}

\* rollout policy: which items the recorder persists
IsPersisted == [k \in AllKinds |-> k \notin {"Other", "StateSnapshot", "None"}]

----------------------------------------------------------------------------
\* Tasks.
\* hist0 and roll0 are the lengths of the history and of the rollout when the
\* task last called try_run_turn
IdleTask ==
    [kind |-> "none", pc |-> "none", aborted |-> FALSE, input |-> <<>>,
     pending |-> <<>>, prompt |-> <<>>, retries |-> 0, attempts |-> 0,
     ev0 |-> 0, err |-> "none", delay |-> <<>>, out |-> <<>>, rec |-> <<>>, ret |-> "none",
     call |-> NoItem, safety |-> "none", rx |-> "none", ready |-> 0,
     sa |-> NoItem, nested |-> FALSE, nout |-> 0, h0 |-> 0, result |-> "",
     tools |-> <<>>, denied |-> FALSE, nfail |-> FALSE, retry |-> FALSE,
     hist0 |-> 0, roll0 |-> 0]

\* what remains of a task whose future has returned or was dropped
Ended(tr, pc) ==
    [IdleTask EXCEPT !.kind = tr.kind, !.pc = pc, !.aborted = tr.aborted,
                     !.err = IF pc = "done" THEN tr.err ELSE "none"]

\* JoinHandle::is_finished
IsFinished(tr) == tr.pc \in {"done", "cancelled"}
Spawned(tr) == tr.kind # "none"

\* awaits at which a task can be suspended, hence dropped once aborted
SuspendPcs == {"start", "rec_snap", "rec_items", "open_stream", "stream",
               "await_approval", "exec_run", "sleep", "n_open", "n_stream"}
\* the awaits among them that wait for the outside world (the provider, the
\* front-end, a child process, a timer); the others are sends on a channel
\* with free capacity
WaitPcs == {"open_stream", "stream", "await_approval", "exec_run", "sleep",
            "n_open", "n_stream"}
\* an aborted task is dropped at an await that waits; it passes one only when
\* the awaited value is there already
MustDie(tr) == tr.aborted /\ tr.pc \in WaitPcs /\ tr.ready >= budget.ready

\* AgentTask::abort: the task is marked and a detached task sends TurnAborted
AbortMark(ts, t) ==
    IF t # NoTask /\ ~IsFinished(ts[t]) THEN [ts EXCEPT ![t].aborted = TRUE] ELSE ts
\* an abort that tells nobody
AbortSilently(ts, t, reason) == {}

AbortEvent(ts, t, reason) ==
    IF t # NoTask /\ ~IsFinished(ts[t]) THEN {Event(t, "TurnAborted", reason)} ELSE {}

\* dropping the senders held in pending_approvals closes their channels
DropSenders(ts, keys) ==
    [t \in SubIds |-> IF t \in keys /\ ts[t].rx = "open"
                      THEN [ts[t] EXCEPT !.rx = "dropped"] ELSE ts[t]]

Emit(e) == events' = Append(events, e)

----------------------------------------------------------------------------
\* no function is under application
NoCall == [fn |-> "none"]

Budget(subs, prov, ready) == [subs |-> subs, prov |-> prov, ready |-> ready]

\* AskForApproval
Policies == {"Never", "OnRequest", "UnlessTrusted", "OnFailure"}
\* the policy of the runs that meet no sandbox error, where nothing reads it
DefaultPolicy == "OnRequest"

\* the state after Session::new for a new conversation: the environment
\* context is recorded and persisted, nothing is running
InitSession ==
    /\ current_task = NoTask
    /\ pending_approvals = {}
    /\ pending_input = <<>>
    /\ approved_commands = {}
    /\ history = <<EnvContext>>
    /\ rollout = <<StateSnapshot(0), EnvContext>>
    /\ events = <<>>
    /\ detached = {}
    /\ tasks = [t \in SubIds |-> IdleTask]
    /\ loop = [pc |-> "recv", sub |-> NoTask]
    /\ nsub = 0
    /\ nprov = 0
    /\ call_log = {}
    /\ recorder = [state |-> "open", flushed |-> FALSE]
    /\ token_info = 0
    /\ usage = 0

Init == InitSession /\ pure = NoCall /\ approval_policy = DefaultPolicy /\ budget = Budget(SessionSubs, MaxProv, MaxReadyAwaits)

\* the token_usage of a Completed event
UsageOfResponse == 1
\* TokenUsageInfo::new_or_append adds the usage to the aggregate
new_or_append(info, token_usage) == info + token_usage

\* the provider reports the usage of a response; the session accounts for it
Reported == usage' = usage + UsageOfResponse
Accounted == token_info' = new_or_append(token_info, UsageOfResponse)

----------------------------------------------------------------------------
\* submission_loop

Recv == loop.pc = "recv" /\ nsub < budget.subs /\ nsub < MaxSubs /\ UNCHANGED <<budget, approval_policy, token_info, usage, pure, recorder>>

\* Session::interrupt_task, one critical section
InterruptTask ==
    /\ pending_approvals' = {}
    /\ pending_input' = <<>>
    /\ current_task' = NoTask
    /\ tasks' = AbortMark(DropSenders(tasks, pending_approvals), current_task)
    /\ detached' = detached \cup AbortEvent(tasks, current_task, "Interrupted")

OpInterrupt ==
    /\ Recv
    /\ nsub' = nsub + 1
    /\ InterruptTask
    /\ UNCHANGED <<approved_commands, history, rollout, events, loop, nprov, call_log>>

\* a handler that spawns without asking inject_input
SpawnAlways(kind, input) ==
    /\ Recv
    /\ nsub' = nsub + 1
    /\ tasks' = [tasks EXCEPT ![nsub + 1] =
                    [IdleTask EXCEPT !.kind = kind, !.pc = "start", !.input = input]]
    /\ loop' = [pc |-> "set_task", sub |-> nsub + 1]
    /\ UNCHANGED <<current_task, pending_approvals, pending_input, approved_commands,
                   history, rollout, events, detached, nprov, call_log>>

\* Session::inject_input followed, when no task is current, by AgentTask::spawn
\* (kind "regular") or AgentTask::compact (kind "compact")
InjectOrSpawn(kind, input) ==
    /\ Recv
    /\ nsub' = nsub + 1
    /\ IF current_task # NoTask
       THEN /\ pending_input' = Append(pending_input, UserMsg(nsub + 1))
            /\ UNCHANGED <<tasks, loop>>
       ELSE /\ tasks' = [tasks EXCEPT ![nsub + 1] =
                           [IdleTask EXCEPT !.kind = kind, !.pc = "start", !.input = input]]
            /\ loop' = [pc |-> "set_task", sub |-> nsub + 1]
            /\ UNCHANGED pending_input
    /\ UNCHANGED <<current_task, pending_approvals, approved_commands, history,
                   rollout, events, detached, nprov, call_log>>

OpUserInput == InjectOrSpawn("regular", <<UserMsg(nsub + 1)>>)
OpUserInputEmpty == InjectOrSpawn("regular", <<>>)
OpCompact == InjectOrSpawn("compact", <<UserMsg(nsub + 1)>>)

\* Session::set_task
SetTask ==
    /\ loop.pc = "set_task"
    /\ tasks' = AbortMark(tasks, current_task)
    /\ detached' = detached \cup AbortEvent(tasks, current_task, "Replaced")
    /\ current_task' = loop.sub
    /\ loop' = [pc |-> "recv", sub |-> NoTask]
    /\ UNCHANGED <<pending_approvals, pending_input, approved_commands, history,
                   rollout, events, nsub, nprov, call_log, budget, approval_policy, token_info, usage, pure, recorder>>

Decisions == {"Approved", "ApprovedForSession", "Denied"}

\* a notification that leaves the sender in the map
NotifyKeepingEntry(id, d) ==
    /\ tasks' = IF id \in pending_approvals THEN [tasks EXCEPT ![id].rx = d] ELSE tasks
    /\ UNCHANGED <<current_task, pending_approvals, pending_input, detached>>

\* Session::notify_approval
NotifyApproval(id, d) ==
    /\ pending_approvals' = pending_approvals \ {id}
    /\ tasks' = IF id \in pending_approvals /\ tasks[id].rx = "open"
                THEN [tasks EXCEPT ![id].rx = d] ELSE tasks
    /\ UNCHANGED <<current_task, pending_input, detached>>

\* Op::ExecApproval
OpExecApproval(id, d) ==
    /\ Recv
    /\ nsub' = nsub + 1
    /\ IF d = "Abort" THEN InterruptTask ELSE NotifyApproval(id, d)
    /\ UNCHANGED <<approved_commands, history, rollout, events, loop, nprov, call_log>>

\* the detached task of AgentTask::abort sends its TurnAborted
DeliverDetached(e) ==
    /\ e \in detached
    /\ detached' = detached \ {e}
    /\ Emit(e)
    /\ UNCHANGED <<current_task, pending_approvals, pending_input, approved_commands,
                   history, rollout, tasks, loop, nsub, nprov, call_log, budget, approval_policy, token_info, usage, pure, recorder>>

\* the writer of the rollout writes what was enqueued; only rec.shutdown()
\* waits for it, so its progress is followed from the take of the handle on
WriterFlush ==
    /\ recorder.state = "taken"
    /\ ~recorder.flushed
    /\ recorder' = [recorder EXCEPT !.flushed = TRUE]
    /\ UNCHANGED <<current_task, pending_approvals, pending_input, approved_commands,
                   history, rollout, events, detached, tasks, loop, nsub, nprov,
                   call_log, budget, approval_policy, token_info, usage, pure>>

\* Op::Shutdown: sess.rollout.lock().take()
OpShutdown ==
    /\ loop.pc = "recv" /\ nsub < budget.subs /\ nsub < MaxSubs
    /\ nsub' = nsub + 1
    /\ recorder' = [recorder EXCEPT !.state = "taken"]
    /\ loop' = [pc |-> "shutdown", sub |-> nsub + 1]
    /\ UNCHANGED <<current_task, pending_approvals, pending_input, approved_commands,
                   history, rollout, events, detached, tasks, nprov, call_log, budget, approval_policy, token_info, usage, pure>>

\* a shutdown as the step of a handler that forgets the recorder
ShutdownUnflushed ==
    /\ loop.pc = "shutdown"
    /\ recorder' = [recorder EXCEPT !.state = "closed"]
    /\ loop' = [loop EXCEPT !.pc = "shutdown_complete"]
    /\ UNCHANGED <<current_task, pending_approvals, pending_input, approved_commands,
                   history, rollout, events, detached, tasks, nsub, nprov, call_log,
                   budget, approval_policy, token_info, usage, pure>>

\* Op::Shutdown: rec.shutdown().await returns Ok once the writer has written
\* what was enqueued and acknowledged
ShutdownFlushed ==
    /\ loop.pc = "shutdown"
    /\ recorder.flushed
    /\ recorder' = [recorder EXCEPT !.state = "closed"]
    /\ loop' = [loop EXCEPT !.pc = "shutdown_complete"]
    /\ UNCHANGED <<current_task, pending_approvals, pending_input, approved_commands,
                   history, rollout, events, detached, tasks, nsub, nprov, call_log,
                   budget, approval_policy, token_info, usage, pure>>

\* Op::Shutdown: rec.shutdown().await returns Err; the Error event
ShutdownFailed ==
    /\ loop.pc = "shutdown"
    /\ recorder' = [recorder EXCEPT !.state = "failed"]
    /\ Emit(Event(loop.sub, "Error", 0))
    /\ loop' = [loop EXCEPT !.pc = "shutdown_complete"]
    /\ UNCHANGED <<current_task, pending_approvals, pending_input, approved_commands,
                   history, rollout, detached, tasks, nsub, nprov, call_log, budget, approval_policy, token_info, usage, pure>>

\* Op::Shutdown: the ShutdownComplete event, then break
ShutdownComplete ==
    /\ loop.pc = "shutdown_complete"
    /\ Emit(Event(loop.sub, "ShutdownComplete", 0))
    /\ loop' = [loop EXCEPT !.pc = "exited"]
    /\ UNCHANGED <<current_task, pending_approvals, pending_input, approved_commands,
                   history, rollout, detached, tasks, nsub, nprov, call_log, budget, approval_policy, token_info, usage, pure,
                   recorder>>

ShutdownStep == ShutdownFlushed \/ ShutdownFailed \/ ShutdownComplete

----------------------------------------------------------------------------
\* steps of a task

SetT(t, tr) ==
    tasks' = [tasks EXCEPT ![t] =
                IF tasks[t].aborted /\ tasks[t].pc \in WaitPcs /\ ~IsFinished(tr)
                THEN [tr EXCEPT !.ready = @ + 1] ELSE tr]
At(t, pc) == tasks[t].pc = pc /\ ~MustDie(tasks[t])
AtR(t, pc) == At(t, pc) /\ tasks[t].kind = "regular"
AtC(t, pc) == At(t, pc) /\ tasks[t].kind = "compact"

\* a task dropped at an await after abort()
Die(t) ==
    /\ tasks[t].aborted
    /\ tasks[t].pc \in SuspendPcs
    /\ tasks' = [tasks EXCEPT ![t] = Ended(tasks[t], "cancelled")]
    /\ UNCHANGED <<current_task, pending_approvals, pending_input, approved_commands,
                   history, rollout, events, detached, loop, nsub, nprov, call_log, budget, approval_policy, token_info, usage, pure, recorder>>

\* Session::record_conversation_items(items), then continue at ret
StartRec(tr, items, ret) == [tr EXCEPT !.rec = items, !.ret = ret, !.pc = "rec_snap"]

\* run_task: empty input returns at once; otherwise TaskStarted
Start(t) ==
    /\ AtR(t, "start")
    /\ IF tasks[t].input = <<>>
       THEN /\ SetT(t, Ended(tasks[t], "done"))
            /\ UNCHANGED events
       ELSE /\ Emit(Event(t, "TaskStarted", 0))
            /\ SetT(t, StartRec([tasks[t] EXCEPT !.input = <<>>], tasks[t].input, "get_pending"))
    /\ UNCHANGED <<current_task, pending_approvals, pending_input, approved_commands,
                   history, rollout, detached, loop, nsub, nprov, call_log, budget, approval_policy, token_info, usage, pure, recorder>>

\* the lines are enqueued when the session still holds its recorder
Enqueue(lines) ==
    IF recorder.state = "open"
    THEN /\ rollout' = rollout \o lines
         /\ recorder' = [recorder EXCEPT !.flushed = (lines = <<>>) /\ @]
    ELSE UNCHANGED <<rollout, recorder>>

\* Session::record_state_snapshot: rec.record_state(snapshot)
RecSnap(t) ==
    /\ At(t, "rec_snap")
    /\ Enqueue(<<StateSnapshot(t)>>)
    /\ SetT(t, [tasks[t] EXCEPT !.pc =
                  IF tasks[t].rec = <<>> THEN tasks[t].ret ELSE "rec_items",
                  !.ret = IF tasks[t].rec = <<>> THEN "none" ELSE tasks[t].ret])
    /\ UNCHANGED <<current_task, pending_approvals, pending_input, approved_commands,
                   history, events, detached, loop, nsub, nprov, call_log, budget, approval_policy, token_info, usage, pure>>

\* Session::record_state_snapshot: rec.record_items(items)
RecItems(t) ==
    /\ At(t, "rec_items")
    /\ Enqueue(FilterSeq(tasks[t].rec, IsPersisted))
    /\ SetT(t, [tasks[t] EXCEPT !.pc = "rec_hist"])
    /\ UNCHANGED <<current_task, pending_approvals, pending_input, approved_commands,
                   history, events, detached, loop, nsub, nprov, call_log, budget, approval_policy, token_info, usage, pure>>

\* ConversationHistory::record_items appends the items
record_items(h, items) == h \o items

\* a recording that replaces the history by the items
RecHistReplacing(t) ==
    /\ At(t, "rec_hist")
    /\ history' = tasks[t].rec
    /\ SetT(t, [tasks[t] EXCEPT !.pc = tasks[t].ret, !.ret = "none", !.rec = <<>>])
    /\ UNCHANGED <<current_task, pending_approvals, pending_input, approved_commands,
                   rollout, events, detached, loop, nsub, nprov, call_log, budget, approval_policy, token_info, usage, pure, recorder>>

\* Session::record_conversation_items_internal: history.record_items(items)
RecHist(t) ==
    /\ At(t, "rec_hist")
    /\ history' = record_items(history, tasks[t].rec)
    /\ SetT(t, [tasks[t] EXCEPT !.pc = tasks[t].ret, !.ret = "none", !.rec = <<>>])
    /\ UNCHANGED <<current_task, pending_approvals, pending_input, approved_commands,
                   rollout, events, detached, loop, nsub, nprov, call_log, budget, approval_policy, token_info, usage, pure, recorder>>

\* run_task loop head: Session::get_pending_input, then record it
GetPending(t) ==
    /\ At(t, "get_pending")
    /\ pending_input' = <<>>
    /\ SetT(t, StartRec([tasks[t] EXCEPT !.pending = pending_input], pending_input, "build_input"))
    /\ UNCHANGED <<current_task, pending_approvals, approved_commands, history, rollout,
                   events, detached, loop, nsub, nprov, call_log, budget, approval_policy, token_info, usage, pure, recorder>>

\* Session::turn_input_with_history(pending_input); run_turn starts with retries = 0
BuildInput(t) ==
    /\ AtR(t, "build_input")
    /\ SetT(t, [tasks[t] EXCEPT !.prompt = history \o tasks[t].pending, !.pending = <<>>,
                  !.retries = 0, !.attempts = 0, !.ev0 = Len(events), !.err = "none",
                  !.hist0 = Len(history), !.roll0 = Len(rollout),
                  !.pc = "open_stream"])
    /\ UNCHANGED <<current_task, pending_approvals, pending_input, approved_commands,
                   history, rollout, events, detached, loop, nsub, nprov, call_log, budget, approval_policy, token_info, usage, pure, recorder>>

----------------------------------------------------------------------------
\* try_run_turn: the request sent to the provider

RECURSIVE CallIdsOf(_, _)
CallIdsOf(s, kinds) ==
    IF s = <<>> THEN <<>>
    ELSE IF Head(s).kind \in kinds THEN <<Head(s).cid>> \o CallIdsOf(Tail(s), kinds)
    ELSE CallIdsOf(Tail(s), kinds)

SeqToSet(s) == {s[i] : i \in DOMAIN s}

\* kinds whose call_id counts as answered
CompletedKinds == {"FunctionCallOutput", "LocalShellCall", "CustomToolCallOutput"}
completed_call_ids(input) == SeqToSet(CallIdsOf(input, CompletedKinds))

RECURSIVE AbortedOutputs(_, _)
AbortedOutputs(cids, done) ==
    IF cids = <<>> THEN <<>>
    ELSE IF Head(cids) \in done THEN AbortedOutputs(Tail(cids), done)
    ELSE <<CustomToolCallOutput(Head(cids), "aborted")>> \o AbortedOutputs(Tail(cids), done)

missing_calls(input) == AbortedOutputs(CallIdsOf(input, CallKinds), completed_call_ids(input))

TurnRequest(input) == missing_calls(input) \o input

----------------------------------------------------------------------------
\* run_turn: what follows a failed attempt

ErrKinds == {"Interrupted", "EnvVar", "UsageLimitReached", "UsageNotIncluded",
             "Stream", "StreamDelay", "Io"}
\* the errors run_turn returns at once
ReturnedAtOnce == {"Interrupted", "EnvVar", "UsageLimitReached", "UsageNotIncluded"}

\* a retry loop that forgets its cap
RetryWithoutCap(e, retries) == e \notin ReturnedAtOnce

ShouldRetry(e, retries) == e \notin ReturnedAtOnce /\ retries < StreamMaxRetries
RetryDelay(e, retries) == IF e = "StreamDelay" THEN <<"server">> ELSE <<"backoff", retries>>

\* the attempt of task t ends with error e: run_turn retries (StreamError,
\* then sleep) or returns the error to run_task (Error event, then break)
TurnError(t, e) ==
    LET tr == [tasks[t] EXCEPT !.err = e, !.out = <<>>,
                               !.attempts = IF tasks[t].pc = "open_stream" THEN @ + 1 ELSE @]
    IN IF ShouldRetry(e, tasks[t].retries)
       THEN /\ Emit(Event(t, "StreamError", 0))
            /\ SetT(t, [tr EXCEPT !.retries = @ + 1,
                          !.delay = RetryDelay(e, tasks[t].retries + 1), !.pc = "sleep"])
       ELSE /\ Emit(Event(t, "Error", 0))
            /\ SetT(t, [tr EXCEPT !.prompt = <<>>, !.pc = "remove_task"])

Provider == nprov < budget.prov /\ nprov' = nprov + 1

\* client.stream(&prompt) succeeds
OpenOk(t) ==
    /\ AtR(t, "open_stream")
    /\ Provider
    /\ SetT(t, [tasks[t] EXCEPT !.attempts = @ + 1, !.err = "none", !.delay = <<>>, !.out = <<>>,
                  !.pc = "stream"])
    /\ UNCHANGED <<current_task, pending_approvals, pending_input, approved_commands,
                   history, rollout, events, detached, loop, nsub, call_log, budget, approval_policy, token_info, usage, pure, recorder>>

\* client.stream(&prompt) fails
OpenFail(t, e) ==
    /\ AtR(t, "open_stream")
    /\ Provider
    /\ TurnError(t, e)
    /\ UNCHANGED <<current_task, pending_approvals, pending_input, approved_commands,
                   history, rollout, detached, loop, nsub, call_log, budget, approval_policy, token_info, usage, pure, recorder>>

\* stream.next() yields an error
StreamFail(t, e) ==
    /\ AtR(t, "stream")
    /\ Provider
    /\ TurnError(t, e)
    /\ UNCHANGED <<current_task, pending_approvals, pending_input, approved_commands,
                   history, rollout, detached, loop, nsub, call_log, budget, approval_policy, token_info, usage, pure, recorder>>

\* stream.next() yields None: "stream closed before response.completed"
StreamClosed(t) ==
    /\ AtR(t, "stream")
    /\ Provider
    /\ TurnError(t, "Stream")
    /\ UNCHANGED <<current_task, pending_approvals, pending_input, approved_commands,
                   history, rollout, detached, loop, nsub, call_log, budget, approval_policy, token_info, usage, pure, recorder>>

\* tokio::time::sleep(delay), then the next attempt
Sleep(t) ==
    /\ AtR(t, "sleep")
    /\ SetT(t, [tasks[t] EXCEPT !.hist0 = Len(history), !.roll0 = Len(rollout),
                  !.pc = "open_stream"])
    /\ UNCHANGED <<current_task, pending_approvals, pending_input, approved_commands,
                   history, rollout, events, detached, loop, nsub, nprov, call_log, budget, approval_policy, token_info, usage, pure, recorder>>

Pair(item, resp) == [item |-> item, resp |-> resp]
PushOut(tr, item, resp) == [tr EXCEPT !.out = Append(@, Pair(item, resp))]

\* OutputItemDone(assistant message): AgentMessage event, no response
StreamMessage(t) ==
    /\ AtR(t, "stream")
    /\ Provider
    /\ Emit(Event(t, "AgentMessage", 0))
    /\ SetT(t, PushOut(tasks[t], AssistantMsg, NoItem))
    /\ UNCHANGED <<current_task, pending_approvals, pending_input, approved_commands,
                   history, rollout, detached, loop, nsub, call_log, budget, approval_policy, token_info, usage, pure, recorder>>

\* OutputItemDone(function call of a name no handler knows): "unsupported call"
StreamUnsupportedCall(t) ==
    /\ AtR(t, "stream")
    /\ Provider
    /\ SetT(t, PushOut(tasks[t], Item("FunctionCall", nprov + 1, "unknown", ""),
                       FunctionCallOutput(nprov + 1, "unsupported call")))
    /\ UNCHANGED <<current_task, pending_approvals, pending_input, approved_commands,
                   history, rollout, events, detached, loop, nsub, call_log, budget, approval_policy, token_info, usage, pure, recorder>>

\* run_task, Ok branch: the items to record for the (item, response) pairs
RECURSIVE ItemsToRecord(_)
ItemsToRecord(out) ==
    IF out = <<>> THEN <<>>
    ELSE LET p == Head(out)
             here == IF p.resp = NoItem
                     THEN IF (p.item.kind = "Message" /\ p.item.tag = "assistant")
                             \/ p.item.kind = "Reasoning"
                          THEN <<p.item>> ELSE <<>>
                     ELSE IF p.item.kind \in CallKinds THEN <<p.item, p.resp>> ELSE <<>>
         IN here \o ItemsToRecord(Tail(out))

RECURSIVE Responses(_)
Responses(out) ==
    IF out = <<>> THEN <<>>
    ELSE (IF Head(out).resp = NoItem THEN <<>> ELSE <<Head(out).resp>>) \o Responses(Tail(out))

\* Completed: try_run_turn returns Ok; run_task records the turn's items and
\* breaks when the turn produced no response
StreamCompleted(t) ==
    /\ AtR(t, "stream")
    /\ Provider
    /\ Reported /\ Accounted
    /\ LET next == IF Responses(tasks[t].out) = <<>> THEN "remove_task" ELSE "get_pending"
           items == ItemsToRecord(tasks[t].out)
           tr == [tasks[t] EXCEPT !.out = <<>>, !.prompt = <<>>, !.retries = 0,
                                   !.attempts = 0, !.ev0 = 0]
       IN SetT(t, IF items = <<>> THEN [tr EXCEPT !.pc = next] ELSE StartRec(tr, items, next))
    /\ Emit(Event(t, "TokenCount", 0))
    /\ UNCHANGED <<current_task, pending_approvals, pending_input, approved_commands,
                   history, rollout, detached, loop, nsub, call_log, budget, approval_policy, pure, recorder>>

\* Session::remove_task(sub_id)
RemoveTask(t) ==
    /\ AtR(t, "remove_task")
    /\ current_task' = IF current_task = t THEN NoTask ELSE current_task
    /\ SetT(t, [tasks[t] EXCEPT !.pc = "task_complete"])
    /\ UNCHANGED <<pending_approvals, pending_input, approved_commands, history, rollout,
                   events, detached, loop, nsub, nprov, call_log, budget, approval_policy, token_info, usage, pure, recorder>>

\* the TaskComplete event ends the task
TaskComplete(t) ==
    /\ At(t, "task_complete")
    /\ Emit(Event(t, "TaskComplete", 0))
    /\ SetT(t, Ended(tasks[t], "done"))
    /\ UNCHANGED <<current_task, pending_approvals, pending_input, approved_commands,
                   history, rollout, detached, loop, nsub, nprov, call_log, budget, approval_policy, token_info, usage, pure, recorder>>

----------------------------------------------------------------------------
\* handle_container_exec_with_params

\* assess_command_safety: a command approved for the session is auto-approved,
\* any other is judged by the policies
Assess(cmd) ==
    IF cmd \in approved_commands THEN {"AutoApprove"}
    ELSE {"AutoApprove", "AskUser", "Reject"}

\* <ReviewDecision as Default>::default(), what a dropped channel yields
ReviewDecisionDefault == "Denied"

Logged(c, s, d, o) == [cid |-> c, safety |-> s, decision |-> d, output |-> o]

\* the output of a shell call goes to the turn's output or, for a call a
\* sub-agent made, to the nested turn's pending_function_outputs
ReturnOutput(tr, call, content) ==
    LET back == [tr EXCEPT !.call = NoItem, !.safety = "none", !.nested = FALSE,
                           !.retry = FALSE]
    IN IF tr.nested THEN [back EXCEPT !.nout = @ + 1, !.pc = "n_stream"]
       ELSE PushOut([back EXCEPT !.pc = "stream"], call, FunctionCallOutput(call.cid, content))

\* OutputItemDone(shell function call) on the stream read at pc: the
\* command's safety is assessed
ShellCall(t, s, pc) ==
    /\ AtR(t, pc)
    /\ Provider
    /\ \E cmd \in Cmds :
         LET call == Item("FunctionCall", nprov + 1, "shell", cmd)
             tr == [tasks[t] EXCEPT !.call = call, !.safety = s, !.nested = (pc = "n_stream")]
         IN /\ s \in Assess(cmd)
            /\ CASE s = "AutoApprove" ->
                      /\ SetT(t, [tr EXCEPT !.pc = "exec_begin"])
                      /\ call_log' = call_log \cup {Logged(call.cid, s, "none", "")}
                 [] s = "AskUser" ->
                      /\ SetT(t, [tr EXCEPT !.pc = "req_insert"])
                      /\ UNCHANGED call_log
                 [] s = "Reject" ->
                      /\ SetT(t, ReturnOutput(tr, call, "exec command rejected"))
                      /\ call_log' = call_log \cup {Logged(call.cid, s, "none", "exec command rejected")}
    /\ UNCHANGED <<current_task, pending_approvals, pending_input, approved_commands,
                   history, rollout, events, detached, loop, nsub, budget, approval_policy, token_info, usage, pure, recorder>>

StreamShellCall(t, s) == ShellCall(t, s, "stream")

\* Session::request_command_approval: the sender is stored under the sub_id
ReqInsert(t) ==
    /\ At(t, "req_insert")
    /\ pending_approvals' = pending_approvals \cup {t}
    /\ SetT(t, [tasks[t] EXCEPT !.rx = "open", !.pc = "req_event"])
    /\ UNCHANGED <<current_task, pending_input, approved_commands, history, rollout,
                   events, detached, loop, nsub, nprov, call_log, budget, approval_policy, token_info, usage, pure, recorder>>

\* Session::request_command_approval: the ExecApprovalRequest event
ReqEvent(t) ==
    /\ At(t, "req_event")
    /\ Emit(Event(t, "ExecApprovalRequest", tasks[t].call.cid))
    /\ SetT(t, [tasks[t] EXCEPT !.pc = "await_approval"])
    /\ UNCHANGED <<current_task, pending_approvals, pending_input, approved_commands,
                   history, rollout, detached, loop, nsub, nprov, call_log, budget, approval_policy, token_info, usage, pure, recorder>>

\* a match that lets a denied command through
ProceedsUnlessAbort(d) == d # "Abort"

\* the decisions after which the command runs
Proceeds(d) == d \in {"Approved", "ApprovedForSession"}

\* rx_approve.await.unwrap_or_default() and the match on the decision
AwaitApproval(t) ==
    /\ At(t, "await_approval")
    /\ ~tasks[t].retry
    /\ tasks[t].rx # "open"
    /\ LET got == tasks[t].rx
           d == IF got = "dropped" THEN ReviewDecisionDefault ELSE got
           call == tasks[t].call
           tr == [tasks[t] EXCEPT !.rx = "none"]
       IN IF Proceeds(d)
          THEN /\ approved_commands' =
                    IF d = "ApprovedForSession" THEN approved_commands \cup {call.arg}
                    ELSE approved_commands
               /\ SetT(t, [tr EXCEPT !.pc = "exec_begin"])
               /\ call_log' = call_log \cup {Logged(call.cid, "AskUser", got, "")}
          ELSE /\ SetT(t, ReturnOutput(tr, call, "exec command rejected by user"))
               /\ call_log' = call_log \cup
                                 {Logged(call.cid, "AskUser", got, "exec command rejected by user")}
               /\ UNCHANGED approved_commands
    /\ UNCHANGED <<current_task, pending_approvals, pending_input, history, rollout,
                   events, detached, loop, nsub, nprov, budget, approval_policy, token_info, usage, pure, recorder>>

\* Session::run_exec_with_events: the ExecCommandBegin event
ExecBegin(t) ==
    /\ At(t, "exec_begin")
    /\ Emit(Event(t, "ExecCommandBegin", tasks[t].call.cid))
    /\ SetT(t, [tasks[t] EXCEPT !.pc = "exec_run"])
    /\ UNCHANGED <<current_task, pending_approvals, pending_input, approved_commands,
                   history, rollout, detached, loop, nsub, nprov, call_log, budget, approval_policy, token_info, usage, pure, recorder>>

\* process_exec_tool_call returns; the ExecCommandEnd event; the output
ExecRun(t) ==
    /\ At(t, "exec_run")
    /\ Emit(Event(t, "ExecCommandEnd", tasks[t].call.cid))
    /\ SetT(t, ReturnOutput(tasks[t], tasks[t].call, "output"))
    /\ UNCHANGED <<current_task, pending_approvals, pending_input, approved_commands,
                   history, rollout, detached, loop, nsub, nprov, call_log, budget, approval_policy, token_info, usage, pure, recorder>>

----------------------------------------------------------------------------
\* handle_sandbox_error

\* the errors process_exec_tool_call returns: CodexErr::Sandbox(Denied),
\* CodexErr::Sandbox(Timeout), any other error
ExecErrs == {"Denied", "Timeout", "Other"}

\* a handler that asks for a retry whatever the policy and the error
AlwaysAsk(policy, e) == ""

\* the failure handle_sandbox_error returns at once, "" when it goes on to ask
early_out(policy, e) ==
    IF policy \in {"Never", "OnRequest"} THEN "failed in sandbox"
    ELSE IF e = "Timeout" THEN "command timed out"
    ELSE ""

\* a failed run that sends no end event
ExecFailSilently(t, e) ==
    /\ At(t, "exec_run")
    /\ LET call == tasks[t].call
       IN SetT(t, IF tasks[t].retry THEN ReturnOutput(tasks[t], call, "retry failed")
                  ELSE IF e = "Other" THEN ReturnOutput(tasks[t], call, "execution error")
                  ELSE IF early_out(approval_policy, e) # ""
                  THEN ReturnOutput(tasks[t], call, early_out(approval_policy, e))
                  ELSE [tasks[t] EXCEPT !.retry = TRUE, !.pc = "sb_notify"])
    /\ UNCHANGED <<current_task, pending_approvals, pending_input, approved_commands,
                   history, rollout, events, detached, loop, nsub, nprov, call_log, budget,
                   approval_policy, token_info, usage, pure, recorder>>

\* process_exec_tool_call returns Err(e); the ExecCommandEnd event; the match
\* on the result, in handle_container_exec_with_params or, for the re-run, in
\* handle_sandbox_error
ExecFail(t, e) ==
    /\ At(t, "exec_run")
    /\ Emit(Event(t, "ExecCommandEnd", tasks[t].call.cid))
    /\ LET call == tasks[t].call
       IN SetT(t, IF tasks[t].retry THEN ReturnOutput(tasks[t], call, "retry failed")
                  ELSE IF e = "Other" THEN ReturnOutput(tasks[t], call, "execution error")
                  ELSE IF early_out(approval_policy, e) # ""
                  THEN ReturnOutput(tasks[t], call, early_out(approval_policy, e))
                  ELSE [tasks[t] EXCEPT !.retry = TRUE, !.pc = "sb_notify"])
    /\ UNCHANGED <<current_task, pending_approvals, pending_input, approved_commands,
                   history, rollout, detached, loop, nsub, nprov, call_log, budget,
                   approval_policy, token_info, usage, pure, recorder>>

\* notify_background_event("Execution failed: ..."), then the request of a
\* retry without sandbox
SandboxNotify(t) ==
    /\ At(t, "sb_notify")
    /\ Emit(Event(t, "BackgroundEvent", tasks[t].call.cid))
    /\ SetT(t, [tasks[t] EXCEPT !.pc = "req_insert"])
    /\ UNCHANGED <<current_task, pending_approvals, pending_input, approved_commands,
                   history, rollout, detached, loop, nsub, nprov, call_log, budget,
                   approval_policy, token_info, usage, pure, recorder>>

\* rx_approve.await.unwrap_or_default() and the match on the decision of the
\* retry: add_approved_command on either approval
AwaitRetryApproval(t) ==
    /\ At(t, "await_approval")
    /\ tasks[t].retry
    /\ tasks[t].rx # "open"
    /\ LET got == tasks[t].rx
           d == IF got = "dropped" THEN ReviewDecisionDefault ELSE got
           call == tasks[t].call
           tr == [tasks[t] EXCEPT !.rx = "none"]
       IN IF d \in {"Approved", "ApprovedForSession"}
          THEN /\ approved_commands' = approved_commands \cup {call.arg}
               /\ SetT(t, [tr EXCEPT !.pc = "sb_retrying"])
               /\ call_log' = call_log \cup {Logged(call.cid, "SandboxError", got, "")}
          ELSE /\ SetT(t, ReturnOutput(tr, call, "exec command rejected by user"))
               /\ call_log' = call_log \cup
                     {Logged(call.cid, "SandboxError", got, "exec command rejected by user")}
               /\ UNCHANGED approved_commands
    /\ UNCHANGED <<current_task, pending_approvals, pending_input, history, rollout,
                   events, detached, loop, nsub, nprov, budget, approval_policy,
                   token_info, usage, pure, recorder>>

\* notify_background_event("retrying command without sandbox"), then
\* run_exec_with_events with SandboxType::None
SandboxRetrying(t) ==
    /\ At(t, "sb_retrying")
    /\ Emit(Event(t, "BackgroundEvent", tasks[t].call.cid))
    /\ SetT(t, [tasks[t] EXCEPT !.pc = "exec_begin"])
    /\ UNCHANGED <<current_task, pending_approvals, pending_input, approved_commands,
                   history, rollout, detached, loop, nsub, nprov, call_log, budget,
                   approval_policy, token_info, usage, pure, recorder>>

SandboxStep(t) ==
    \/ \E e \in ExecErrs : ExecFail(t, e)
    \/ SandboxNotify(t)
    \/ AwaitRetryApproval(t)
    \/ SandboxRetrying(t)

----------------------------------------------------------------------------
\* run_compact_task

\* ConversationHistory::keep_last_messages(1): the final assistant message
RECURSIVE LastAssistant(_)
LastAssistant(h) ==
    IF h = <<>> THEN <<>>
    ELSE IF h[Len(h)].kind = "Message" /\ h[Len(h)].tag = "assistant" THEN <<h[Len(h)]>>
    ELSE LastAssistant(SubSeq(h, 1, Len(h) - 1))
keep_last_messages(h) == LastAssistant(h)

\* the TaskStarted event
CompactStart(t) ==
    /\ AtC(t, "start")
    /\ Emit(Event(t, "TaskStarted", 0))
    /\ SetT(t, [tasks[t] EXCEPT !.pc = "build_input"])
    /\ UNCHANGED <<current_task, pending_approvals, pending_input, approved_commands,
                   history, rollout, detached, loop, nsub, nprov, call_log, budget, approval_policy, token_info, usage, pure, recorder>>

\* Session::turn_input_with_history(input): the input is not recorded
CompactBuildInput(t) ==
    /\ AtC(t, "build_input")
    /\ SetT(t, [tasks[t] EXCEPT !.prompt = history \o tasks[t].input, !.input = <<>>,
                  !.retries = 0, !.pc = "open_stream"])
    /\ UNCHANGED <<current_task, pending_approvals, pending_input, approved_commands,
                   history, rollout, events, detached, loop, nsub, nprov, call_log, budget, approval_policy, token_info, usage, pure, recorder>>

\* the retry policy of run_compact_task
CompactShouldRetry(e, retries) == e # "Interrupted" /\ retries < StreamMaxRetries

\* drain_to_completed fails with e
CompactError(t, e) ==
    LET tr == [tasks[t] EXCEPT !.err = e]
    IN IF e = "Interrupted"
       THEN /\ SetT(t, Ended(tr, "done"))
            /\ UNCHANGED events
       ELSE IF CompactShouldRetry(e, tasks[t].retries)
       THEN /\ Emit(Event(t, "StreamError", 0))
            /\ SetT(t, [tr EXCEPT !.retries = @ + 1,
                          !.delay = <<"backoff", tasks[t].retries + 1>>, !.pc = "sleep"])
       ELSE /\ Emit(Event(t, "Error", 0))
            /\ SetT(t, Ended(tr, "done"))

CompactOpenOk(t) ==
    /\ AtC(t, "open_stream")
    /\ Provider
    /\ SetT(t, [tasks[t] EXCEPT !.err = "none", !.delay = <<>>, !.pc = "stream"])
    /\ UNCHANGED <<current_task, pending_approvals, pending_input, approved_commands,
                   history, rollout, events, detached, loop, nsub, call_log, budget, approval_policy, token_info, usage, pure, recorder>>

CompactOpenFail(t, e) ==
    /\ AtC(t, "open_stream")
    /\ Provider
    /\ CompactError(t, e)
    /\ UNCHANGED <<current_task, pending_approvals, pending_input, approved_commands,
                   history, rollout, detached, loop, nsub, call_log, budget, approval_policy, token_info, usage, pure, recorder>>

CompactStreamFail(t, e) ==
    /\ AtC(t, "stream")
    /\ Provider
    /\ CompactError(t, e)
    /\ UNCHANGED <<current_task, pending_approvals, pending_input, approved_commands,
                   history, rollout, detached, loop, nsub, call_log, budget, approval_policy, token_info, usage, pure, recorder>>

CompactStreamClosed(t) ==
    /\ AtC(t, "stream")
    /\ Provider
    /\ CompactError(t, "Stream")
    /\ UNCHANGED <<current_task, pending_approvals, pending_input, approved_commands,
                   history, rollout, detached, loop, nsub, call_log, budget, approval_policy, token_info, usage, pure, recorder>>

CompactSleep(t) ==
    /\ AtC(t, "sleep")
    /\ SetT(t, [tasks[t] EXCEPT !.pc = "open_stream"])
    /\ UNCHANGED <<current_task, pending_approvals, pending_input, approved_commands,
                   history, rollout, events, detached, loop, nsub, nprov, call_log, budget, approval_policy, token_info, usage, pure, recorder>>

\* the items a provider can close in a stream
StreamItems(c) == {AssistantMsg, Item("FunctionCall", c, "shell", "cmd"),
                   Item("LocalShellCall", c, "shell", "cmd")}

\* drain_to_completed, OutputItemDone(item): recorded to the history alone
CompactStreamItem(t, item) ==
    /\ AtC(t, "stream")
    /\ Provider
    /\ item \in StreamItems(nprov + 1)
    /\ history' = record_items(history, <<item>>)
    /\ SetT(t, tasks[t])
    /\ UNCHANGED <<current_task, pending_approvals, pending_input, approved_commands,
                   rollout, events, detached, loop, nsub, call_log, budget, approval_policy, token_info, usage, pure, recorder>>

\* drain_to_completed, Completed: the TokenCount event; Ok(())
CompactStreamCompleted(t) ==
    /\ AtC(t, "stream")
    /\ Provider
    /\ Reported /\ Accounted
    /\ Emit(Event(t, "TokenCount", 0))
    /\ SetT(t, [tasks[t] EXCEPT !.prompt = <<>>, !.retries = 0, !.pc = "remove_task"])
    /\ UNCHANGED <<current_task, pending_approvals, pending_input, approved_commands,
                   history, rollout, detached, loop, nsub, call_log, budget, approval_policy, pure, recorder>>

\* Session::remove_task(sub_id)
CompactRemoveTask(t) ==
    /\ AtC(t, "remove_task")
    /\ current_task' = IF current_task = t THEN NoTask ELSE current_task
    /\ SetT(t, [tasks[t] EXCEPT !.pc = "truncate"])
    /\ UNCHANGED <<pending_approvals, pending_input, approved_commands, history, rollout,
                   events, detached, loop, nsub, nprov, call_log, budget, approval_policy, token_info, usage, pure, recorder>>

\* state.history.keep_last_messages(1)
CompactTruncate(t) ==
    /\ AtC(t, "truncate")
    /\ history' = keep_last_messages(history)
    /\ SetT(t, [tasks[t] EXCEPT !.pc = "compact_msg"])
    /\ UNCHANGED <<current_task, pending_approvals, pending_input, approved_commands,
                   rollout, events, detached, loop, nsub, nprov, call_log, budget, approval_policy, token_info, usage, pure, recorder>>

\* the AgentMessage "Compact task completed"
CompactMessage(t) ==
    /\ AtC(t, "compact_msg")
    /\ Emit(Event(t, "AgentMessage", 0))
    /\ SetT(t, [tasks[t] EXCEPT !.pc = "task_complete"])
    /\ UNCHANGED <<current_task, pending_approvals, pending_input, approved_commands,
                   history, rollout, detached, loop, nsub, nprov, call_log, budget, approval_policy, token_info, usage, pure, recorder>>

CompactStep(t) ==
    \/ CompactStart(t)
    \/ CompactBuildInput(t)
    \/ CompactOpenOk(t)
    \/ \E e \in ErrKinds : CompactOpenFail(t, e)
    \/ \E e \in ErrKinds : CompactStreamFail(t, e)
    \/ CompactStreamClosed(t)
    \/ CompactSleep(t)
    \/ \E item \in StreamItems(nprov + 1) : CompactStreamItem(t, item)
    \/ CompactStreamCompleted(t)
    \/ CompactRemoveTask(t)
    \/ CompactTruncate(t)
    \/ CompactMessage(t)

----------------------------------------------------------------------------
\* agents.rs: filter_tools_for_agent

MaxTools == 3           \* length of the tool list given to the filter
MaxAllow == 2           \* names in an allowlist

\* OpenAiTool
Tool(variant, name) == [variant |-> variant, name |-> name]
Tools == {Tool("Function", "shell"), Tool("LocalShell", ""),
          Tool("Function", "exec_command"), Tool("Function", "write_stdin"),
          Tool("WebSearch", ""), Tool("Freeform", "apply_patch"),
          Tool("Function", "view_image")}
\* the match on the variant that names a tool
tool_name(tool) ==
    CASE tool.variant = "LocalShell" -> "local_shell"
      [] tool.variant = "WebSearch" -> "web_search"
      [] OTHER -> tool.name
ToolNames == {tool_name(x) : x \in Tools} \cup {"unknown_tool"}
shell_aliases == {"shell", "local_shell", "exec_command", "write_stdin"}

\* Option<&[String]>
None == [some |-> FALSE, names |-> {}]
Some(names) == [some |-> TRUE, names |-> names]

RECURSIVE Filter(_, _)
Filter(tools, keep) ==
    IF tools = <<>> THEN <<>>
    ELSE IF tool_name(Head(tools)) \in keep
         THEN <<Head(tools)>> \o Filter(Tail(tools), keep)
         ELSE Filter(Tail(tools), keep)

\* a filter that takes the allowlist as written
FilterWithoutAliases(tools, allowed_tools) ==
    IF ~allowed_tools.some THEN tools ELSE Filter(tools, allowed_tools.names)

filter_tools_for_agent(tools, allowed_tools) ==
    IF ~allowed_tools.some THEN tools
    ELSE IF allowed_tools.names = {} THEN <<>>
    ELSE LET expanded == IF \E n \in allowed_tools.names : n \in shell_aliases
                         THEN allowed_tools.names \cup shell_aliases
                         ELSE allowed_tools.names
         IN Filter(tools, expanded)

ToolLists == UNION {[1..n -> Tools] : n \in 0..MaxTools}
Allowlists == {None} \cup
              {Some(a) : a \in {s \in SUBSET ToolNames : Cardinality(s) <= MaxAllow}}

InitFilter ==
    /\ InitSession
    /\ approval_policy = DefaultPolicy
    /\ budget = Budget(0, 0, 0)
    /\ \E tools \in ToolLists, allowed \in Allowlists :
          pure = [fn |-> "filter_tools_for_agent", tools |-> tools,
                  allowed |-> allowed, out |-> <<>>, done |-> FALSE]

ApplyFilter ==
    /\ pure.fn = "filter_tools_for_agent" /\ ~pure.done
    /\ pure' = [pure EXCEPT !.out = filter_tools_for_agent(pure.tools, pure.allowed),
                            !.done = TRUE]
    /\ UNCHANGED <<current_task, pending_approvals, pending_input, approved_commands,
                   history, rollout, events, detached, tasks, loop, nsub, nprov,
                   budget, approval_policy, token_info, usage, recorder, call_log>>

NextFilter == ApplyFilter
SpecFilter == InitFilter /\ [][NextFilter]_vars

----------------------------------------------------------------------------
\* codex.rs: handle_response_item, handle_function_call, handle_custom_tool_call

MaxCallIds == 2         \* distinct call ids and item ids a streamed item may carry

\* Option<String>: the empty set is None, a singleton is Some
NoId == {}
SomeId(x) == {x}
OptIds == {NoId} \cup {SomeId(c) : c \in 1..MaxCallIds}
\* the call_id "" of the answer to a LocalShellCall without call_id and id
EmptyCallId == 0

BuiltinNames == {"container.exec", "shell", "view_image", "apply_patch", "update_plan",
                 "exec_command", "write_stdin", "subagent_list", "subagent_describe",
                 "subagent_run"}
\* names the connection manager may know as fully qualified tool names
McpNames == {"srv__tool", "srv__other"}
FunctionNames == BuiltinNames \cup McpNames \cup {"frobnicate"}
CustomNames == {"apply_patch", "frobnicate"}
SilentKinds == {"Message", "Reasoning", "WebSearchCall", "FunctionCallOutput",
                "CustomToolCallOutput", "SubAgentStart", "SubAgentEnd", "Other"}
ToolCallKinds == {"FunctionCall", "LocalShellCall", "CustomToolCall"}

ResponseItem(kind, name, call_id, id, args_ok) ==
    [kind |-> kind, name |-> name, call_id |-> call_id, id |-> id, args_ok |-> args_ok]

ResponseItems ==
    {ResponseItem("FunctionCall", n, SomeId(c), NoId, ok) :
        n \in FunctionNames, c \in 1..MaxCallIds, ok \in BOOLEAN}
    \cup {ResponseItem("LocalShellCall", "", c, i, TRUE) : c \in OptIds, i \in OptIds}
    \cup {ResponseItem("CustomToolCall", n, SomeId(c), NoId, TRUE) :
            n \in CustomNames, c \in 1..MaxCallIds}
    \cup {ResponseItem(k, "", NoId, NoId, TRUE) : k \in SilentKinds}

\* what of the session the dispatcher reads
DispatchEnvs == [include_subagent_tools : BOOLEAN, mcp_tools : SUBSET McpNames]

\* ResponseInputItem; ran names the handler that executed, "none" when nothing did
InputItem(kind, call_id, content, ran) ==
    [kind |-> kind, cid |-> call_id, content |-> content, ran |-> ran]

\* a handler that ran answers under the call id it was given
Handled(handler, call_id) ==
    InputItem("FunctionCallOutput", call_id, <<"output of ", handler>>, handler)
ParseFailure(call_id) ==
    InputItem("FunctionCallOutput", call_id, <<"failed to parse function arguments">>, "none")
SubAgentsDisabled(call_id) ==
    InputItem("FunctionCallOutput", call_id,
              <<"Sub-agents are not enabled in this session">>, "none")

\* a handler that answers every call under the empty id, as an unsupported call
AnswerUnderEmptyId(name, args_ok, call_id, env) ==
    InputItem("FunctionCallOutput", EmptyCallId, <<"unsupported call: ", name>>, "none")

handle_function_call(name, args_ok, call_id, env) ==
    CASE name \in {"container.exec", "shell"} ->
            IF args_ok THEN Handled("handle_container_exec_with_params", call_id)
            ELSE ParseFailure(call_id)
      [] name = "view_image" ->
            IF args_ok THEN Handled("inject_input", call_id) ELSE ParseFailure(call_id)
      [] name = "apply_patch" ->
            IF args_ok THEN Handled("handle_container_exec_with_params", call_id)
            ELSE ParseFailure(call_id)
      [] name = "update_plan" -> Handled("handle_update_plan", call_id)
      [] name = "exec_command" ->
            IF args_ok THEN Handled("handle_exec_command_request", call_id)
            ELSE ParseFailure(call_id)
      [] name = "write_stdin" ->
            IF args_ok THEN Handled("handle_write_stdin_request", call_id)
            ELSE ParseFailure(call_id)
      [] name \in {"subagent_list", "subagent_describe", "subagent_run"} ->
            IF env.include_subagent_tools THEN Handled(name, call_id)
            ELSE SubAgentsDisabled(call_id)
      [] OTHER ->
            IF name \in env.mcp_tools
            THEN [Handled("handle_mcp_tool_call", call_id) EXCEPT !.kind = "McpToolCallOutput"]
            ELSE InputItem("FunctionCallOutput", call_id,
                           <<"unsupported call: ", name>>, "none")

handle_custom_tool_call(name, call_id, env) ==
    IF name = "apply_patch"
    THEN [Handled("handle_container_exec_with_params", call_id)
             EXCEPT !.kind = "CustomToolCallOutput"]
    ELSE InputItem("CustomToolCallOutput", call_id,
                   <<"unsupported custom tool call: ", name>>, "none")

\* the Option the dispatcher returns: the empty sequence is None
handle_response_item(item, env) ==
    CASE item.kind = "FunctionCall" ->
            <<handle_function_call(item.name, item.args_ok,
                                   CHOOSE c \in item.call_id : TRUE, env)>>
      [] item.kind = "LocalShellCall" ->
            IF item.call_id # NoId
            THEN <<Handled("handle_container_exec_with_params",
                           CHOOSE c \in item.call_id : TRUE)>>
            ELSE IF item.id # NoId
            THEN <<Handled("handle_container_exec_with_params",
                           CHOOSE c \in item.id : TRUE)>>
            ELSE <<InputItem("FunctionCallOutput", EmptyCallId,
                             <<"LocalShellCall without call_id or id">>, "none")>>
      [] item.kind = "CustomToolCall" ->
            <<handle_custom_tool_call(item.name, CHOOSE c \in item.call_id : TRUE, env)>>
      [] OTHER -> <<>>

InitDispatch ==
    /\ InitSession
    /\ approval_policy = DefaultPolicy
    /\ budget = Budget(0, 0, 0)
    /\ \E item \in ResponseItems, env \in DispatchEnvs :
          pure = [fn |-> "handle_response_item", item |-> item, env |-> env,
                  out |-> <<>>, done |-> FALSE]

ApplyDispatch ==
    /\ pure.fn = "handle_response_item" /\ ~pure.done
    /\ pure' = [pure EXCEPT !.out = handle_response_item(pure.item, pure.env),
                            !.done = TRUE]
    /\ UNCHANGED <<current_task, pending_approvals, pending_input, approved_commands,
                   history, rollout, events, detached, tasks, loop, nsub, nprov,
                   budget, approval_policy, token_info, usage, recorder, call_log>>

NextDispatch == ApplyDispatch
SpecDispatch == InitDispatch /\ [][NextDispatch]_vars

----------------------------------------------------------------------------
\* codex.rs: format_exec_output_str

MODEL_FORMAT_MAX_BYTES == 10 * 1024
MODEL_FORMAT_MAX_LINES == 256
MODEL_FORMAT_HEAD_LINES == MODEL_FORMAT_MAX_LINES \div 2
MODEL_FORMAT_TAIL_LINES == MODEL_FORMAT_MAX_LINES - MODEL_FORMAT_HEAD_LINES
MODEL_FORMAT_HEAD_BYTES == MODEL_FORMAT_MAX_BYTES \div 2

MaxOutputLines == 260   \* lines of an aggregated output
\* byte lengths of the lines of an aggregated output
LineLens == {0, 1, 38, 39, 40, 100, MODEL_FORMAT_HEAD_BYTES, MODEL_FORMAT_MAX_BYTES + 1}

\* A text of one-byte characters is the sequence of the byte lengths of its
\* segments between newlines: <<0>> is "", <<3, 0>> is "abc\n".
Text(n, len, trailing_newline) ==
    IF n = 0 THEN <<0>>
    ELSE [i \in 1..n |-> len] \o (IF trailing_newline THEN <<0>> ELSE <<>>)

RECURSIVE SumOf(_)
SumOf(s) ==
    IF Len(s) = 0 THEN 0
    ELSE IF Len(s) = 1 THEN s[1]
    ELSE LET m == Len(s) \div 2
         IN SumOf(SubSeq(s, 1, m)) + SumOf(SubSeq(s, m + 1, Len(s)))

\* str::len
byte_len(s) == SumOf(s) + Len(s) - 1
\* str::lines: a final empty segment is no line
lines_of(s) == IF s[Len(s)] = 0 THEN SubSeq(s, 1, Len(s) - 1) ELSE s
\* [&str]::join("\n")
join_nl(lines) == IF lines = <<>> THEN <<0>> ELSE lines
\* String::push_str
push_str(a, b) == SubSeq(a, 1, Len(a) - 1) \o <<a[Len(a)] + b[1]>> \o Tail(b)
reversed(s) == [i \in 1..Len(s) |-> s[Len(s) + 1 - i]]
saturating_sub(a, b) == IF a > b THEN a - b ELSE 0
min_of(a, b) == IF a < b THEN a ELSE b
\* the decimal digits of a usize
RECURSIVE digits(_)
digits(n) == IF n < 10 THEN 1 ELSE 1 + digits(n \div 10)

\* the bytes of the first k segments, each with the newline after it
prefix_len(s, k) == SumOf(SubSeq(s, 1, k)) + k

\* the longest prefix within maxb bytes: whole segments with their newlines, then
\* what fits of the next segment
take_bytes_at_char_boundary(s, maxb) ==
    IF byte_len(s) <= maxb THEN s
    ELSE LET fits == {k \in 0..(Len(s) - 1) : prefix_len(s, k) <= maxb}
             k == CHOOSE x \in fits : \A y \in fits : y <= x
         IN SubSeq(s, 1, k) \o <<min_of(s[k + 1], maxb - prefix_len(s, k))>>

take_last_bytes_at_char_boundary(s, maxb) ==
    reversed(take_bytes_at_char_boundary(reversed(s), maxb))

\* format!("\n[... omitted {omitted} of {total_lines} lines ...]\n\n")
marker_of(omitted, total_lines) == <<0, 28 + digits(omitted) + digits(total_lines), 0, 0>>

format_exec_output_str(s) ==
    LET lines == lines_of(s)
        total_lines == Len(lines)
        head_take == min_of(MODEL_FORMAT_HEAD_LINES, Len(lines))
        tail_take == min_of(MODEL_FORMAT_TAIL_LINES, saturating_sub(Len(lines), head_take))
        omitted == saturating_sub(Len(lines), head_take + tail_take)
        head_block == join_nl(SubSeq(lines, 1, head_take))
        tail_block == IF tail_take > 0
                      THEN join_nl(SubSeq(lines, Len(lines) - tail_take + 1, Len(lines)))
                      ELSE <<0>>
        marker == marker_of(omitted, total_lines)
        head_budget0 == min_of(MODEL_FORMAT_HEAD_BYTES, MODEL_FORMAT_MAX_BYTES)
        tail_budget == saturating_sub(MODEL_FORMAT_MAX_BYTES, head_budget0 + byte_len(marker))
        head_budget == IF tail_budget = 0
                       THEN saturating_sub(MODEL_FORMAT_MAX_BYTES, byte_len(marker))
                       ELSE head_budget0
        head_part == take_bytes_at_char_boundary(head_block, head_budget)
        result == push_str(head_part, marker)
        remaining == saturating_sub(MODEL_FORMAT_MAX_BYTES, byte_len(result))
        tail_part == take_last_bytes_at_char_boundary(tail_block, remaining)
    IN  IF byte_len(s) <= MODEL_FORMAT_MAX_BYTES /\ total_lines <= MODEL_FORMAT_MAX_LINES
        THEN s
        ELSE IF tail_budget = 0 /\ byte_len(marker) >= MODEL_FORMAT_MAX_BYTES
        THEN take_bytes_at_char_boundary(marker, MODEL_FORMAT_MAX_BYTES)
        ELSE push_str(result, tail_part)

InitFormat ==
    /\ InitSession
    /\ approval_policy = DefaultPolicy
    /\ budget = Budget(0, 0, 0)
    /\ \E n \in 0..MaxOutputLines, len \in LineLens, nl \in BOOLEAN :
          pure = [fn |-> "format_exec_output_str", text |-> Text(n, len, nl),
                  out |-> <<0>>, done |-> FALSE]

ApplyFormat ==
    /\ pure.fn = "format_exec_output_str" /\ ~pure.done
    /\ pure' = [pure EXCEPT !.out = format_exec_output_str(pure.text), !.done = TRUE]
    /\ UNCHANGED <<current_task, pending_approvals, pending_input, approved_commands,
                   history, rollout, events, detached, tasks, loop, nsub, nprov,
                   budget, approval_policy, token_info, usage, recorder, call_log>>

NextFormat == ApplyFormat
SpecFormat == InitFormat /\ [][NextFormat]_vars

----------------------------------------------------------------------------
\* template_processor.rs: render_template

MAX_BYTES == 64 * 1024

MaxTemplateLen == 4     \* characters of an enumerated template
MaxArgs == 2            \* arguments of an enumerated argument list

\* A string is a sequence of characters; the character XRun stands for a run of
\* MAX_BYTES letters x, every other character is one byte.
XRun == "x..x"
char_len(c) == IF c = XRun THEN MAX_BYTES ELSE 1
str_len(s) == SumOf([i \in 1..Len(s) |-> char_len(s[i])])
chars_of(s) == {s[i] : i \in 1..Len(s)}

AsciiDigits == {"0", "1", "2", "3", "4", "5", "6", "7", "8", "9"}
digit_value == [c \in AsciiDigits |->
                  CASE c = "0" -> 0 [] c = "1" -> 1 [] c = "2" -> 2 [] c = "3" -> 3
                    [] c = "4" -> 4 [] c = "5" -> 5 [] c = "6" -> 6 [] c = "7" -> 7
                    [] c = "8" -> 8 [] c = "9" -> 9]
ARGUMENTS == <<"A", "R", "G", "U", "M", "E", "N", "T", "S">>
\* usize::MAX of a 64-bit target, in decimal
USIZE_MAX == <<"1", "8", "4", "4", "6", "7", "4", "4", "0", "7",
               "3", "7", "0", "9", "5", "5", "1", "6", "1", "5">>

\* args.join(" ")
RECURSIVE join_space(_)
join_space(args) ==
    IF args = <<>> THEN <<>>
    ELSE IF Len(args) = 1 THEN args[1]
    ELSE args[1] \o <<" ">> \o join_space(Tail(args))

\* chars.peek() at position i; "" is None
peek(t, i) == IF i <= Len(t) THEN t[i] ELSE ""

\* whether key lies at position i; the caller then skips Len(key) characters
str_peek_consume(t, i, key) ==
    /\ i + Len(key) - 1 <= Len(t)
    /\ SubSeq(t, i, i + Len(key) - 1) = key

\* the digits collected into num from position j on
RECURSIVE digit_run(_, _)
digit_run(t, j) ==
    IF j <= Len(t) /\ t[j] \in AsciiDigits THEN <<t[j]>> \o digit_run(t, j + 1) ELSE <<>>

RECURSIVE strip_zeros(_)
strip_zeros(num) ==
    IF num # <<>> /\ Head(num) = "0" THEN strip_zeros(Tail(num)) ELSE num

\* a <= b for decimal numerals of equal length
RECURSIVE numeral_leq(_, _)
numeral_leq(a, b) ==
    IF a = <<>> THEN TRUE
    ELSE IF digit_value[Head(a)] # digit_value[Head(b)]
    THEN digit_value[Head(a)] < digit_value[Head(b)]
    ELSE numeral_leq(Tail(a), Tail(b))

\* num.parse::<usize>() is Ok: some digit, and a value that fits a usize
parse_ok(num) ==
    LET n == strip_zeros(num)
    IN /\ num # <<>>
       /\ \/ Len(n) < Len(USIZE_MAX)
          \/ Len(n) = Len(USIZE_MAX) /\ numeral_leq(n, USIZE_MAX)

RECURSIVE numeral_value(_)
numeral_value(n) ==
    IF n = <<>> THEN 0 ELSE 10 * numeral_value(SubSeq(n, 1, Len(n) - 1)) + digit_value[n[Len(n)]]

\* args.get(idx - 1) pushed to the output, for the idx >= 1 that num denotes;
\* a numeral of more than four digits is beyond every argument list
arg_or_empty(args, num) ==
    LET n == strip_zeros(num)
    IN IF Len(n) <= 4 /\ numeral_value(n) \in 1..Len(args)
       THEN args[numeral_value(n)] ELSE <<>>

OkText(s) == [ok |-> TRUE, text |-> s]
OutputTooLarge == [ok |-> FALSE, text |-> <<>>]

\* the loop of render_template from position i on, out rendered so far
RECURSIVE render_from(_, _, _, _)
render_from(t, args, i, out) ==
    IF i > Len(t)
    THEN IF str_len(out) > MAX_BYTES THEN OutputTooLarge ELSE OkText(out)
    ELSE
    LET ch == t[i]
        nx == peek(t, i + 1)
        all == join_space(args)
    IN  IF ch # "$" THEN render_from(t, args, i + 1, Append(out, ch))
        ELSE IF nx = "$" THEN render_from(t, args, i + 2, Append(out, "$"))
        ELSE IF nx = "*" THEN render_from(t, args, i + 2, out \o all)
        ELSE IF str_peek_consume(t, i + 1, ARGUMENTS)
        THEN render_from(t, args, i + 1 + Len(ARGUMENTS), out \o all)
        ELSE IF nx = "{"
        THEN LET num == digit_run(t, i + 2)
                 k == i + 2 + Len(num)
                 closed == peek(t, k) = "}"
                 after == IF closed THEN k + 1 ELSE k
             IN  IF closed /\ parse_ok(num) /\ strip_zeros(num) # <<>>
                 THEN render_from(t, args, after, out \o arg_or_empty(args, num))
                 ELSE LET literal == out \o <<"$", "{">> \o num
                      IN IF peek(t, after) = "}"
                         THEN render_from(t, args, after + 1, Append(literal, "}"))
                         ELSE render_from(t, args, after, literal)
        ELSE IF nx \in AsciiDigits \ {"0"}
        THEN render_from(t, args, i + 2, out \o arg_or_empty(args, <<nx>>))
        ELSE LET kept == IF nx # "" THEN out \o <<"$", nx>> ELSE Append(out, "$")
                 next == IF nx # "" THEN i + 2 ELSE i + 1
             IN  IF str_len(kept) > MAX_BYTES THEN OutputTooLarge
                 ELSE render_from(t, args, next, kept)

render_template(template, args) ==
    IF "$" \notin chars_of(template) THEN OkText(template)
    ELSE render_from(template, args, 1, <<>>)

TemplateChars == {"$", "*", "{", "}", "0", "1", "x"}
EnumTemplates == UNION {[1..n -> TemplateChars] : n \in 0..MaxTemplateLen}
ArgValues == {<<>>, <<"a">>, <<XRun>>}
EnumArgs == UNION {[1..n -> ArgValues] : n \in 0..MaxArgs}
\* the templates and the argument list of the unit tests, and templates at the
\* limits of the index and of the output size
SampleTemplates ==
    {<<"$">> \o ARGUMENTS,
     <<"$", "A", "R", "G", "S">>,
     <<"$", "{", "1", "0", "}">>,
     <<"$", "{", "0", "1", "}">>,
     <<"$", "1", "0">>,
     <<"$", "{">> \o USIZE_MAX \o <<"}">>,
     <<"$", "{">> \o SubSeq(USIZE_MAX, 1, 19) \o <<"6", "}">>,
     <<XRun>>, <<XRun, "x">>, <<XRun, "$", "$">>, <<XRun, "$">>, <<XRun, "$", "x">>}
TenArgs == [i \in 1..10 |-> IF i = 10 THEN <<"T", "E", "N">> ELSE <<"a">>]

InitRender ==
    /\ InitSession
    /\ approval_policy = DefaultPolicy
    /\ budget = Budget(0, 0, 0)
    /\ \E template \in EnumTemplates \cup SampleTemplates, args \in EnumArgs \cup {TenArgs} :
          pure = [fn |-> "render_template", template |-> template, args |-> args,
                  out |-> OkText(<<>>), done |-> FALSE]

ApplyRender ==
    /\ pure.fn = "render_template" /\ ~pure.done
    /\ pure' = [pure EXCEPT !.out = render_template(pure.template, pure.args),
                            !.done = TRUE]
    /\ UNCHANGED <<current_task, pending_approvals, pending_input, approved_commands,
                   history, rollout, events, detached, tasks, loop, nsub, nprov,
                   budget, approval_policy, token_info, usage, recorder, call_log>>

NextRender == ApplyRender
SpecRender == InitRender /\ [][NextRender]_vars

----------------------------------------------------------------------------
\* custom_commands.rs: normalize_id

MaxIdLen == 4           \* characters of a name given to normalize_id

UpperChars == {"A", "Z"}
LowerAlnum == {"a", "b", "c", "d", "e", "f", "g", "h", "i", "j", "k", "l", "m", "n",
               "o", "p", "q", "r", "s", "t", "u", "v", "w", "x", "y", "z",
               "0", "1", "2", "3", "4", "5", "6", "7", "8", "9"}
\* the characters the match turns into a hyphen
HyphenLike == {" ", "_", "-"}
\* char::to_lowercase on the characters drawn
lowercase_of(c) == CASE c = "A" -> "a" [] c = "Z" -> "z" [] OTHER -> c
to_lowercase(s) == [i \in 1..Len(s) |-> lowercase_of(s[i])]

\* the loop over lowered.chars() from position i on, with out and prev_hyphen
RECURSIVE normalize_from(_, _, _, _)
normalize_from(lowered, i, out, prev_hyphen) ==
    IF i > Len(lowered) THEN out
    ELSE LET ch == lowered[i]
         IN IF ch \in LowerAlnum
            THEN normalize_from(lowered, i + 1, Append(out, ch), FALSE)
            ELSE IF ch \in HyphenLike
            THEN IF ~prev_hyphen
                 THEN normalize_from(lowered, i + 1, Append(out, "-"), TRUE)
                 ELSE normalize_from(lowered, i + 1, out, prev_hyphen)
            ELSE normalize_from(lowered, i + 1, out, prev_hyphen)

\* str::trim_matches('-')
RECURSIVE trim_start_hyphens(_)
trim_start_hyphens(s) ==
    IF s # <<>> /\ Head(s) = "-" THEN trim_start_hyphens(Tail(s)) ELSE s
RECURSIVE trim_end_hyphens(_)
trim_end_hyphens(s) ==
    IF s # <<>> /\ s[Len(s)] = "-" THEN trim_end_hyphens(SubSeq(s, 1, Len(s) - 1)) ELSE s
trim_matches_hyphen(s) == trim_end_hyphens(trim_start_hyphens(s))

Unnamed == <<"u", "n", "n", "a", "m", "e", "d">>

\* a normalisation that keeps the hyphens at the ends
NormalizeUntrimmed(name) == normalize_from(to_lowercase(name), 1, <<>>, FALSE)

normalize_id(name) ==
    LET trimmed == trim_matches_hyphen(normalize_from(to_lowercase(name), 1, <<>>, FALSE))
    IN IF trimmed = <<>> THEN Unnamed ELSE trimmed

NameChars == {"a", "A", "Z", "7", " ", "_", "-", "@"}
Names == UNION {[1..n -> NameChars] : n \in 0..MaxIdLen}

InitNormalize ==
    /\ InitSession
    /\ approval_policy = DefaultPolicy
    /\ budget = Budget(0, 0, 0)
    /\ \E name \in Names :
          pure = [fn |-> "normalize_id", name |-> name, out |-> <<>>, done |-> FALSE]

ApplyNormalize ==
    /\ pure.fn = "normalize_id" /\ ~pure.done
    /\ pure' = [pure EXCEPT !.out = normalize_id(pure.name), !.done = TRUE]
    /\ UNCHANGED <<current_task, pending_approvals, pending_input, approved_commands,
                   history, rollout, events, detached, tasks, loop, nsub, nprov,
                   budget, approval_policy, token_info, usage, recorder, call_log>>

NextNormalize == ApplyNormalize
SpecNormalize == InitNormalize /\ [][NextNormalize]_vars

----------------------------------------------------------------------------
\* agents.rs: AgentRegistry, load_agents_from_directory, discover_and_load_agents

MaxAgentFiles == 2      \* entries of an agents directory

AgentFileNames == {"reviewer", "tester", "docs"}
\* a directory entry: an .md file that parses, an .md file that does not, another file
EntryKinds == {"valid", "invalid", "other"}
DirEntry(name, kind) == [name |-> name, kind |-> kind]
\* the directories: entries in the order read_dir yields them, no file name twice
AgentDirs ==
    {d \in UNION {[1..n -> {DirEntry(a, k) : a \in AgentFileNames, k \in EntryKinds}] :
                     n \in 0..MaxAgentFiles} :
        \A i, j \in 1..Len(d) : i # j => d[i].name # d[j].name}
\* no home directory or project root, or no agents directory in it
NoDir == <<DirEntry("", "none")>>

\* the SubAgent parsed from the file of that name in the directory of that origin
AgentDef(name, origin) == [name |-> name, description |-> origin]

\* AgentRegistry.agents: a map from names to definitions
EmptyRegistry == [n \in {} |-> AgentDef("", "")]
has_agent(registry, name) == name \in DOMAIN registry
insert_agent(registry, agent) ==
    [n \in DOMAIN registry \cup {agent.name} |->
        IF n = agent.name THEN agent ELSE registry[n]]

RECURSIVE insert_all(_, _)
insert_all(registry, agents) ==
    IF agents = <<>> THEN registry
    ELSE insert_all(insert_agent(registry, Head(agents)), Tail(agents))

RECURSIVE load_agents_from_directory(_, _)
load_agents_from_directory(dir, origin) ==
    IF dir = NoDir \/ dir = <<>> THEN <<>>
    ELSE IF Head(dir).kind = "valid"
    THEN <<AgentDef(Head(dir).name, origin)>> \o load_agents_from_directory(Tail(dir), origin)
    ELSE load_agents_from_directory(Tail(dir), origin)

\* a discovery that loads the project agents first
DiscoverProjectFirst(user_dir, project_dir) ==
    insert_all(insert_all(EmptyRegistry, load_agents_from_directory(project_dir, "project")),
               load_agents_from_directory(user_dir, "user"))

discover_and_load_agents(user_dir, project_dir) ==
    insert_all(insert_all(EmptyRegistry, load_agents_from_directory(user_dir, "user")),
               load_agents_from_directory(project_dir, "project"))

InitDiscover ==
    /\ InitSession
    /\ approval_policy = DefaultPolicy
    /\ budget = Budget(0, 0, 0)
    /\ \E user_dir \in AgentDirs \cup {NoDir}, project_dir \in AgentDirs \cup {NoDir} :
          pure = [fn |-> "discover_and_load_agents", user_dir |-> user_dir,
                  project_dir |-> project_dir, out |-> EmptyRegistry, done |-> FALSE]

ApplyDiscover ==
    /\ pure.fn = "discover_and_load_agents" /\ ~pure.done
    /\ pure' = [pure EXCEPT !.out = discover_and_load_agents(pure.user_dir, pure.project_dir),
                            !.done = TRUE]
    /\ UNCHANGED <<current_task, pending_approvals, pending_input, approved_commands,
                   history, rollout, events, detached, tasks, loop, nsub, nprov,
                   budget, approval_policy, token_info, usage, recorder, call_log>>

NextDiscover == ApplyDiscover
SpecDiscover == InitDiscover /\ [][NextDiscover]_vars

----------------------------------------------------------------------------
\* SubAgentManager::handle_subagent_run

\* the agents the registry holds, and the arguments a subagent_run call carries:
\* the name of a registered agent, a name not registered, or text that does
\* not parse as RunArgs
\* the agents of the registry and the tools: entry of each
Registered == {"agent", "writer"}
AgentTools == [a \in Registered |-> IF a = "writer" THEN Some({}) ELSE None]

\* openai_tools.rs: get_openai_tools, by the flags of the ToolsConfig
SubAgentToolNames == {"subagent_list", "subagent_describe", "subagent_run"}
ParentConfig == [include_view_image_tool |-> TRUE, include_subagent_tools |-> TRUE]
\* a tool list that has the sub-agent tools whatever the flag
ToolsWithSubAgents(config) ==
    <<Tool("Function", "shell"), Tool("Function", "view_image"),
      Tool("Function", "subagent_list"), Tool("Function", "subagent_describe"),
      Tool("Function", "subagent_run")>>

get_openai_tools(config) ==
    <<Tool("Function", "shell")>>
    \o (IF config.include_view_image_tool THEN <<Tool("Function", "view_image")>> ELSE <<>>)
    \o (IF config.include_subagent_tools
        THEN <<Tool("Function", "subagent_list"), Tool("Function", "subagent_describe"),
               Tool("Function", "subagent_run")>>
        ELSE <<>>)
\* handle_subagent_run: the tools config of the nested conversation
nested_tools_config == [ParentConfig EXCEPT !.include_subagent_tools = FALSE]
\* the names of the tools a request presents
Presented(tools) == {tool_name(tools[i]) : i \in DOMAIN tools}
RunArgs == Registered \cup {"ghost", "malformed"}

SubAgentStart == Item("SubAgentStart", 0, "", "")
SubAgentEnd(success) == Item("SubAgentEnd", 0, IF success THEN "ok" ELSE "failed", "")
\* EventMsg::SubAgentEnd(SubAgentEndEvent { name, success })
end_event(id, c, success) == [id |-> id, msg |-> "SubAgentEnd", cid |-> c, success |-> success]

\* OutputItemDone(function call subagent_run): arguments that do not parse
\* return at once; otherwise the SubAgentStart event, then its item is recorded
StreamSubAgentRun(t, arg) ==
    /\ AtR(t, "stream")
    /\ Provider
    /\ LET call == Item("FunctionCall", nprov + 1, "subagent_run", arg)
           tr == [tasks[t] EXCEPT !.sa = call, !.h0 = Len(history)]
       IN IF arg = "malformed"
          THEN /\ SetT(t, [tr EXCEPT !.result = "failed to parse function arguments",
                                     !.pc = "sa_return"])
               /\ UNCHANGED events
          ELSE /\ Emit(Event(t, "SubAgentStart", call.cid))
               /\ SetT(t, StartRec(tr, <<SubAgentStart>>, "sa_describe"))
    /\ UNCHANGED <<current_task, pending_approvals, pending_input, approved_commands,
                   history, rollout, detached, loop, nsub, call_log, budget, approval_policy, token_info, usage, pure, recorder>>

\* agent_runner.describe_agent(&args.name): an unknown name returns the failure
SubAgentDescribe(t) ==
    /\ AtR(t, "sa_describe")
    /\ SetT(t, IF tasks[t].sa.arg \in Registered
               THEN [tasks[t] EXCEPT !.nout = 0, !.pc = "n_open",
                       !.tools = filter_tools_for_agent(
                                     get_openai_tools(nested_tools_config),
                                     AgentTools[tasks[t].sa.arg])]
               ELSE [tasks[t] EXCEPT !.result = "Sub-agent execution failed", !.pc = "sa_return"])
    /\ UNCHANGED <<current_task, pending_approvals, pending_input, approved_commands,
                   history, rollout, events, detached, loop, nsub, nprov, call_log, budget, approval_policy, token_info, usage, pure, recorder>>

\* 'outer loop: client.stream(&prompt) for the nested conversation succeeds
NestedOpenOk(t) ==
    /\ AtR(t, "n_open")
    /\ Provider
    /\ SetT(t, [tasks[t] EXCEPT !.nout = 0, !.pc = "n_stream"])
    /\ UNCHANGED <<current_task, pending_approvals, pending_input, approved_commands,
                   history, rollout, events, detached, loop, nsub, call_log, budget, approval_policy, token_info, usage, pure, recorder>>

\* ... or fails: success = false, break
NestedOpenFail(t) ==
    /\ AtR(t, "n_open")
    /\ Provider
    /\ SetT(t, [tasks[t] EXCEPT !.result = "failed", !.nfail = TRUE, !.pc = "sa_end"])
    /\ UNCHANGED <<current_task, pending_approvals, pending_input, approved_commands,
                   history, rollout, events, detached, loop, nsub, call_log, budget, approval_policy, token_info, usage, pure, recorder>>

\* nested OutputItemDone(assistant message): kept in the local conversation
NestedMessage(t) ==
    /\ AtR(t, "n_stream")
    /\ Provider
    /\ SetT(t, tasks[t])
    /\ UNCHANGED <<current_task, pending_approvals, pending_input, approved_commands,
                   history, rollout, events, detached, loop, nsub, call_log, budget, approval_policy, token_info, usage, pure, recorder>>

\* nested OutputItemDone(shell call): handle_container_exec_with_params
NestedShellCall(t, s) == ShellCall(t, s, "n_stream")

\* nested OutputItemDone(function call view_image): sess.inject_input
NestedViewImage(t) ==
    /\ AtR(t, "n_stream")
    /\ Provider
    /\ pending_input' = IF current_task # NoTask
                        THEN Append(pending_input, Item("Message", nprov + 1, "user", "image"))
                        ELSE pending_input
    /\ SetT(t, [tasks[t] EXCEPT !.nout = @ + 1])
    /\ UNCHANGED <<current_task, pending_approvals, approved_commands,
                   history, rollout, events, detached, loop, nsub, call_log, budget, approval_policy, token_info, usage, pure, recorder>>

\* nested OutputItemDone(function call subagent_*): denied, a local output
NestedSubAgentCall(t) ==
    /\ AtR(t, "n_stream")
    /\ Provider
    /\ SetT(t, [tasks[t] EXCEPT !.nout = @ + 1, !.denied = TRUE])
    /\ UNCHANGED <<current_task, pending_approvals, pending_input, approved_commands,
                   history, rollout, events, detached, loop, nsub, call_log, budget, approval_policy, token_info, usage, pure, recorder>>

\* nested Completed: the run ends when the turn made no tool call, otherwise
\* the next nested turn starts
NestedCompleted(t) ==
    /\ AtR(t, "n_stream")
    /\ Provider
    /\ Reported
    /\ SetT(t, IF tasks[t].nout = 0
               THEN [tasks[t] EXCEPT !.result = "ok", !.pc = "sa_end"]
               ELSE [tasks[t] EXCEPT !.nout = 0, !.pc = "n_open"])
    /\ UNCHANGED <<current_task, pending_approvals, pending_input, approved_commands,
                   history, rollout, events, detached, loop, nsub, call_log, budget, approval_policy, token_info, pure, recorder>>

\* nested stream error: success = false, break 'outer
NestedFail(t) ==
    /\ AtR(t, "n_stream")
    /\ Provider
    /\ SetT(t, [tasks[t] EXCEPT !.nout = 0, !.result = "failed", !.nfail = TRUE,
                               !.pc = "sa_end"])
    /\ UNCHANGED <<current_task, pending_approvals, pending_input, approved_commands,
                   history, rollout, events, detached, loop, nsub, call_log, budget, approval_policy, token_info, usage, pure, recorder>>

\* the nested stream ends without Completed: the while loop ends and 'outer
\* prompts again
NestedClosed(t) ==
    /\ AtR(t, "n_stream")
    /\ Provider
    /\ SetT(t, [tasks[t] EXCEPT !.nout = 0, !.nfail = TRUE, !.pc = "n_open"])
    /\ UNCHANGED <<current_task, pending_approvals, pending_input, approved_commands,
                   history, rollout, events, detached, loop, nsub, call_log, budget, approval_policy, token_info, usage, pure, recorder>>

\* the SubAgentEnd event, then its item is recorded
SubAgentEndEvent(t) ==
    /\ AtR(t, "sa_end")
    /\ Emit(end_event(t, tasks[t].sa.cid, tasks[t].result = "ok"))
    /\ SetT(t, StartRec([tasks[t] EXCEPT !.nout = 0],
                        <<SubAgentEnd(tasks[t].result = "ok")>>, "sa_return"))
    /\ UNCHANGED <<current_task, pending_approvals, pending_input, approved_commands,
                   history, rollout, detached, loop, nsub, nprov, call_log, budget, approval_policy, token_info, usage, pure, recorder>>

\* handle_subagent_run returns the call's output to the turn
SubAgentReturn(t) ==
    /\ AtR(t, "sa_return")
    /\ SetT(t, PushOut([tasks[t] EXCEPT !.sa = NoItem, !.h0 = 0, !.result = "", !.pc = "stream",
                                        !.tools = <<>>, !.denied = FALSE,
                                        !.nfail = FALSE],
                       tasks[t].sa, FunctionCallOutput(tasks[t].sa.cid, tasks[t].result)))
    /\ UNCHANGED <<current_task, pending_approvals, pending_input, approved_commands,
                   history, rollout, events, detached, loop, nsub, nprov, call_log, budget, approval_policy, token_info, usage, pure, recorder>>

SubAgentStep(t) ==
    \/ \E arg \in RunArgs : StreamSubAgentRun(t, arg)
    \/ SubAgentDescribe(t)
    \/ NestedOpenOk(t)
    \/ NestedOpenFail(t)
    \/ NestedMessage(t)
    \/ \E s \in {"AutoApprove", "AskUser", "Reject"} : NestedShellCall(t, s)
    \/ NestedViewImage(t)
    \/ NestedSubAgentCall(t)
    \/ NestedCompleted(t)
    \/ NestedFail(t)
    \/ NestedClosed(t)
    \/ SubAgentEndEvent(t)
    \/ SubAgentReturn(t)

----------------------------------------------------------------------------
\* the steps every regular task takes
RegularStep(t) ==
    \/ Start(t)
    \/ RecSnap(t)
    \/ RecItems(t)
    \/ RecHist(t)
    \/ GetPending(t)
    \/ BuildInput(t)
    \/ OpenOk(t)
    \/ StreamMessage(t)
    \/ StreamCompleted(t)
    \/ RemoveTask(t)
    \/ TaskComplete(t)

\* a failed attempt and what follows it
FailStep(t) ==
    \/ \E e \in ErrKinds : OpenFail(t, e)
    \/ \E e \in ErrKinds : StreamFail(t, e)
    \/ StreamClosed(t)
    \/ Sleep(t)

\* a shell call from its assessment to its output
ExecStep(t) ==
    \/ \E s \in {"AutoApprove", "AskUser", "Reject"} : StreamShellCall(t, s)
    \/ ReqInsert(t)
    \/ ReqEvent(t)
    \/ AwaitApproval(t)
    \/ ExecBegin(t)
    \/ ExecRun(t)

\* an aborted task is dropped; its TurnAborted is delivered
AbortStep ==
    \/ \E t \in SubIds : Die(t)
    \/ \E e \in detached : DeliverDetached(e)

Next ==
    \/ OpInterrupt
    \/ OpUserInput
    \/ OpUserInputEmpty
    \/ OpCompact
    \/ SetTask
    \/ \E id \in SubIds, d \in Decisions \cup {"Abort"} : OpExecApproval(id, d)
    \/ AbortStep
    \/ \E t \in SubIds : RegularStep(t)
    \/ \E t \in SubIds : FailStep(t)
    \/ \E t \in SubIds : StreamUnsupportedCall(t)
    \/ \E t \in SubIds : ExecStep(t)
    \/ \E t \in SubIds : CompactStep(t)
    \/ \E t \in SubIds : SubAgentStep(t)
    \/ OpShutdown
    \/ ShutdownStep
    \/ WriterFlush

Spec == Init /\ [][Next]_vars

----------------------------------------------------------------------------
\* One turn and its retries: a single user input, every provider response.
TurnSubs == 1
TurnProv == 5
InitTurn == InitSession /\ pure = NoCall /\ approval_policy = DefaultPolicy /\ budget = Budget(TurnSubs, TurnProv, 0)
NextTurn ==
    \/ OpUserInput
    \/ SetTask
    \/ \E t \in SubIds : RegularStep(t)
    \/ \E t \in SubIds : FailStep(t)
    \/ \E t \in SubIds : StreamUnsupportedCall(t)
SpecTurn == InitTurn /\ [][NextTurn]_vars

\* Approvals and interruption: shell calls, decisions, Interrupt.
ApprovalSubs == 3
ApprovalProv == 3
ApprovalReady == 1
InitApproval == InitSession /\ pure = NoCall /\ approval_policy = DefaultPolicy /\ budget = Budget(ApprovalSubs, ApprovalProv, ApprovalReady)
NextApproval ==
    \/ OpInterrupt
    \/ OpUserInput
    \/ SetTask
    \/ \E id \in SubIds, d \in Decisions \cup {"Abort"} : OpExecApproval(id, d)
    \/ AbortStep
    \/ \E t \in SubIds : RegularStep(t)
    \/ \E t \in SubIds : ExecStep(t)
SpecApproval == InitApproval /\ [][NextApproval]_vars

\* Shutdown next to a regular task and the writer of the rollout.
ShutdownSubs == 3
ShutdownProv == 3
InitShutdown == InitSession /\ pure = NoCall /\ approval_policy = DefaultPolicy /\ budget = Budget(ShutdownSubs, ShutdownProv, 0)
NextShutdown ==
    \/ OpUserInput
    \/ SetTask
    \/ OpShutdown
    \/ ShutdownStep
    \/ WriterFlush
    \/ \E t \in SubIds : RegularStep(t)
SpecShutdown == InitShutdown /\ [][NextShutdown]_vars

\* Commands that fail: sandbox errors, the retry without sandbox.
SandboxSubs == 3
SandboxProv == 2
InitSandbox ==
    /\ InitSession /\ pure = NoCall
    /\ approval_policy \in Policies
    /\ budget = Budget(SandboxSubs, SandboxProv, 0)
NextSandbox ==
    \/ OpUserInput
    \/ SetTask
    \/ \E id \in SubIds, d \in Decisions : OpExecApproval(id, d)
    \/ \E t \in SubIds : RegularStep(t)
    \/ \E t \in SubIds : ExecStep(t)
    \/ \E t \in SubIds : SandboxStep(t)
SpecSandbox == InitSandbox /\ [][NextSandbox]_vars

\* User inputs next to a regular task.
InputSubs == 3
InputProv == 3
InitInput == InitSession /\ pure = NoCall /\ approval_policy = DefaultPolicy /\ budget = Budget(InputSubs, InputProv, 0)
NextInput ==
    \/ OpUserInput
    \/ OpUserInputEmpty
    \/ SetTask
    \/ \E t \in SubIds : RegularStep(t)
SpecInput == InitInput /\ [][NextInput]_vars

\* Compaction next to regular tasks: Compact, UserInput, Interrupt.
CompactSubs == 3
CompactProv == 4
InitCompact == InitSession /\ pure = NoCall /\ approval_policy = DefaultPolicy /\ budget = Budget(CompactSubs, CompactProv, 0)
NextCompact ==
    \/ OpInterrupt
    \/ OpUserInput
    \/ OpCompact
    \/ SetTask
    \/ AbortStep
    \/ \E t \in SubIds : RegularStep(t)
    \/ \E t \in SubIds : CompactStep(t)
SpecCompact == InitCompact /\ [][NextCompact]_vars

\* One sub-agent run: a single user input, a turn that calls subagent_run.
SubAgentSubs == 2
SubAgentProv == 6
InitSubAgent == InitSession /\ pure = NoCall /\ approval_policy = DefaultPolicy /\ budget = Budget(SubAgentSubs, SubAgentProv, 0)
NextSubAgent ==
    \/ OpUserInput
    \/ SetTask
    \/ \E id \in SubIds, d \in Decisions : OpExecApproval(id, d)
    \/ \E t \in SubIds : RegularStep(t)
    \/ \E t \in SubIds : ExecStep(t)
    \/ \E t \in SubIds : SubAgentStep(t)
SpecSubAgent == InitSubAgent /\ [][NextSubAgent]_vars

\* One task and its sub-agent runs, every nested provider response.
NestedSubs == 1
NestedProv == 5
InitNested == InitSession /\ pure = NoCall /\ approval_policy = DefaultPolicy /\ budget = Budget(NestedSubs, NestedProv, 0)
NextNested ==
    \/ OpUserInput
    \/ SetTask
    \/ \E t \in SubIds : RegularStep(t)
    \/ \E t \in SubIds : SubAgentStep(t)
    \/ \E t \in SubIds : ExecBegin(t)
    \/ \E t \in SubIds : ExecRun(t)
SpecNested == InitNested /\ [][NextNested]_vars

----------------------------------------------------------------------------
\* The turns' retries.

\* the StreamError events of task t since its turn began
StreamErrorsOfTurn(t) ==
    Cardinality({i \in DOMAIN events : i > tasks[t].ev0 /\ events[i].id = t
                                        /\ events[i].msg = "StreamError"})
InTurn(t) == tasks[t].kind = "regular"
             /\ tasks[t].pc \in {"open_stream", "stream", "sleep"}
\* the turn of t has ended with the error it keeps in err
TurnFailed(t) == tasks[t].kind = "regular" /\ tasks[t].pc = "remove_task"
                 /\ tasks[t].err # "none"

\* C7: a turn retries at most stream_max_retries times, hence opens at most
\* stream_max_retries + 1 streams; one StreamError event precedes each retry;
\* the sleep before a retry lasts the delay the server gave, or else the
\* back-off of the retry's number; and a turn that fails on an error that is
\* retried has used all its retries.
RetriesAreBounded ==
    \A t \in SubIds :
        /\ (InTurn(t) \/ TurnFailed(t)) =>
              /\ tasks[t].retries <= StreamMaxRetries
              /\ tasks[t].attempts <= tasks[t].retries + 1
              /\ StreamErrorsOfTurn(t) = tasks[t].retries
        /\ (InTurn(t) /\ tasks[t].pc = "sleep") =>
              tasks[t].delay = IF tasks[t].err = "StreamDelay" THEN <<"server">>
                               ELSE <<"backoff", tasks[t].retries>>
        /\ (TurnFailed(t) /\ tasks[t].err \notin ReturnedAtOnce) =>
              /\ tasks[t].retries = StreamMaxRetries
              /\ tasks[t].attempts = StreamMaxRetries + 1

\* a turn has used all its retries and failed; before, it slept a server's delay
RetriesExhausted ==
    \E t \in SubIds : TurnFailed(t) /\ tasks[t].err = "Stream"
                      /\ tasks[t].retries = StreamMaxRetries /\ StreamMaxRetries > 0
                      /\ tasks[t].delay = <<"server">>

StreamErrs == {"Stream", "StreamDelay"}

\* C8: a turn that meets an error other than a stream error ends at once: it
\* has not retried, nor sent a StreamError, because of that error.
OnlyStreamErrorsRetried ==
    \A t \in SubIds :
        (tasks[t].kind = "regular" /\ tasks[t].err \notin StreamErrs \cup {"none"}) =>
            tasks[t].pc # "sleep"

----------------------------------------------------------------------------
\* The end of a task that failed.

HasEvent(t, msg) == \E i \in DOMAIN events : events[i].id = t /\ events[i].msg = msg
\* the task has returned and the last thing its turn met was an error of the
\* provider (an Interrupted result is left aside: it is a cancellation)
EndedByFailure(t) == tasks[t].pc = "done" /\ tasks[t].err \notin {"none", "Interrupted"}

\* C9: a task, regular or compact, that has ended because of a failure has
\* sent an Error event at its sub_id and is not the current task any more, so
\* that the next UserInput spawns a task instead of being queued behind it.
FailedTaskLeaves ==
    \A t \in SubIds :
        EndedByFailure(t) => HasEvent(t, "Error") /\ current_task # t

----------------------------------------------------------------------------
\* The history over time.

IsPrefix(a, b) == Len(a) <= Len(b) /\ SubSeq(b, 1, Len(a)) = a

\* the step is the truncation a compact task makes when it has completed
IsTruncation == \E t \in SubIds : tasks[t].pc = "truncate" /\ tasks'[t].pc = "compact_msg"

\* C5 as stated: every step leaves the history it found as a prefix of the
\* history it leaves.
HistoryAppendOnly == [][IsPrefix(history, history')]_vars

\* C5, amended: every step but the truncation of a compact task that has
\* completed leaves the history it found as a prefix of the history it leaves.
HistoryAppendOnlyButCompaction == [][IsTruncation \/ IsPrefix(history, history')]_vars

\* a compact task has truncated the history and a later recording extended it
GrownAfterCompaction ==
    /\ \E t \in SubIds : tasks[t].kind = "compact" /\ HasEvent(t, "AgentMessage")
    /\ Len(history) > 1
    /\ history[Len(history)].kind = "Message" /\ history[Len(history)].tag = "user"

----------------------------------------------------------------------------
\* The rollout and the history.

IsResponseItem == [k \in AllKinds |-> k # "StateSnapshot"]
\* no recording is between its write to the rollout and its append to the history
NoRecordingInFlight == \A t \in SubIds : tasks[t].pc # "rec_hist"

\* C6: the response items written to the rollout are the items of the history
\* that the persistence policy keeps, in the same order (compared when no
\* recording is half done), and a state snapshot precedes the items recorded
\* with it.
RolloutMirrorsHistory ==
    /\ NoRecordingInFlight =>
          FilterSeq(rollout, IsResponseItem) = FilterSeq(history, IsPersisted)
    /\ rollout # <<>> /\ rollout[1].kind = "StateSnapshot"

----------------------------------------------------------------------------
\* The requests of the turns.

\* every call of the input has an output of the same call_id in the input
WellFormed(input) ==
    \A i \in DOMAIN input :
        input[i].kind \in CallKinds =>
            \E j \in DOMAIN input : input[j].kind \in OutputKinds /\ input[j].cid = input[i].cid

\* C2: the request a turn has sent, the turn's input with the synthetic
\* "aborted" outputs before it, holds an output for each of its calls.
RequestsWellFormed ==
    \A t \in SubIds :
        (tasks[t].kind = "regular" /\ tasks[t].pc = "stream") =>
            WellFormed(TurnRequest(tasks[t].prompt))

----------------------------------------------------------------------------
\* Approvals.

Began(c) == \E i \in DOMAIN events : events[i].msg = "ExecCommandBegin" /\ events[i].cid = c
Refusals == {"exec command rejected by user", "exec command rejected"}

\* C3: an ExecCommandBegin is sent only for a call that was assessed and, when
\* the assessment was AskUser, only after Approved or ApprovedForSession was
\* received on its request's channel; a call that was assessed Reject, or
\* whose request was denied or lost its channel without a decision, got a
\* failure output and no ExecCommandBegin.
ApprovalGatesExecution ==
    /\ \A i \in DOMAIN events :
          events[i].msg = "ExecCommandBegin" =>
              \E r \in call_log :
                  /\ r.cid = events[i].cid
                  /\ r.safety \in {"AutoApprove", "AskUser"}
                  /\ r.safety = "AskUser" => r.decision \in {"Approved", "ApprovedForSession"}
    /\ \A r \in call_log :
          (r.safety = "Reject" \/ r.decision \in {"Denied", "Abort", "dropped"}) =>
              /\ r.output \in Refusals
              /\ ~Began(r.cid)

\* one command ran after its approval, another was refused when its channel
\* was dropped
ApprovedRanAndDroppedRefused ==
    /\ \E r \in call_log : r.safety = "AskUser" /\ r.decision = "Approved" /\ Began(r.cid)
    /\ \E r \in call_log : r.decision = "dropped" /\ r.output \in Refusals

----------------------------------------------------------------------------
\* Interruption.

\* the step sends the ExecCommandBegin of a call of task t
BeginsExec(t) == tasks[t].pc = "exec_begin" /\ tasks'[t].pc = "exec_run"

\* C10: the step that processes an Interrupt leaves no current task, no
\* pending approval and no pending input, and closes the channel of every
\* approval the interrupted task awaited; and a task that was interrupted
\* starts no command afterwards.
InterruptStopsTask ==
    [][/\ OpInterrupt =>
             /\ current_task' = NoTask
             /\ pending_approvals' = {}
             /\ pending_input' = <<>>
             /\ \A t \in SubIds : tasks[t].rx = "open" => tasks'[t].rx = "dropped"
       /\ \A t \in SubIds : tasks[t].aborted => ~BeginsExec(t)]_vars

----------------------------------------------------------------------------
\* Session::set_task called while a task is installed.  submission_loop
\* calls set_task only after inject_input found no current task, so the
\* branch of set_task that replaces a task is exercised here by a caller
\* that spawns without asking inject_input.

SpawnOverCurrent ==
    /\ Recv
    /\ current_task # NoTask
    /\ nsub' = nsub + 1
    /\ tasks' = [tasks EXCEPT ![nsub + 1] =
                    [IdleTask EXCEPT !.kind = "regular", !.pc = "start",
                                     !.input = <<UserMsg(nsub + 1)>>]]
    /\ loop' = [pc |-> "set_task", sub |-> nsub + 1]
    /\ UNCHANGED <<current_task, pending_approvals, pending_input, approved_commands,
                   history, rollout, events, detached, nprov, call_log>>

SetTaskSubs == 2
SetTaskProv == 3
InitSetTask == InitSession /\ pure = NoCall /\ approval_policy = DefaultPolicy /\ budget = Budget(SetTaskSubs, SetTaskProv, 0)
NextSetTask ==
    \/ OpUserInput
    \/ OpUserInputEmpty
    \/ SpawnOverCurrent
    \/ SetTask
    \/ AbortStep
    \/ \E t \in SubIds : RegularStep(t)
SpecSetTask == InitSetTask /\ [][NextSetTask]_vars

\* the TurnAborted events at sub_id t, sent or about to be sent
TurnAbortedAt(t) ==
    Cardinality({i \in DOMAIN events : events[i].msg = "TurnAborted" /\ events[i].id = t})
    + Cardinality({e \in detached : e.id = t})

\* the task runs and has neither been aborted nor removed itself
Active(t) == /\ Spawned(tasks[t]) /\ ~IsFinished(tasks[t]) /\ ~tasks[t].aborted
             /\ tasks[t].pc \notin {"task_complete", "truncate", "compact_msg"}

----------------------------------------------------------------------------
\* The frame of a sub-agent run.

\* an item a nested call injected as input
IsNestedInput(item) == item.arg = "image"

\* C4: when a subagent_run call whose arguments name an agent returns, the
\* parent's history is the history the call found followed by a SubAgentStart
\* and a SubAgentEnd, and the parent's pending input holds no item of a
\* nested call.
SubAgentRunAddsTwoItems ==
    \A t \in SubIds :
        (tasks[t].pc = "sa_return" /\ tasks[t].sa.arg # "malformed") =>
            /\ Len(history) = tasks[t].h0 + 2
            /\ history[Len(history) - 1].kind = "SubAgentStart"
            /\ history[Len(history)].kind = "SubAgentEnd"
            /\ \A i \in DOMAIN pending_input : ~IsNestedInput(pending_input[i])

----------------------------------------------------------------------------
\* Decisions of the front-end.

SessionUnchanged ==
    UNCHANGED <<current_task, pending_approvals, pending_input, approved_commands,
                history, rollout, events, detached, tasks, loop, call_log>>

\* C11: a decision Abort leaves no current task and marks the task that was
\* current as aborted; any other decision for an id with a pending approval
\* reaches the receiver of that approval and removes the entry; a decision for
\* an id with no pending approval changes nothing of the session; and a
\* decision that has reached a receiver is never replaced by another one.
DecisionsDeliveredOnce ==
    [][/\ \A id \in SubIds, d \in Decisions \cup {"Abort"} :
             OpExecApproval(id, d) =>
                 IF d = "Abort"
                 THEN /\ current_task' = NoTask
                      /\ (current_task # NoTask /\ ~IsFinished(tasks[current_task])) =>
                             tasks'[current_task].aborted
                 ELSE IF id \in pending_approvals
                 THEN /\ pending_approvals' = pending_approvals \ {id}
                      /\ tasks[id].rx = "open" => tasks'[id].rx = d
                      /\ \A t \in SubIds \ {id} : tasks'[t] = tasks[t]
                      /\ current_task' = current_task
                 ELSE SessionUnchanged
       /\ \A t \in SubIds :
             tasks[t].rx \in Decisions => tasks'[t].rx \in {tasks[t].rx, "none"}]_vars

\* the only task has a decision in its channel, its entry is gone, and a
\* further decision for its id has been processed since
DecidedThenDecidedAgain ==
    /\ nsub = 3 /\ current_task = 1
    /\ tasks[1].rx \in Decisions /\ 1 \notin pending_approvals /\ ~tasks[1].aborted
    /\ tasks[2].kind = "none" /\ tasks[3].kind = "none"
    /\ pending_input = <<>>
    /\ \A i \in DOMAIN history : history[i] \notin {UserMsg(2), UserMsg(3)}

----------------------------------------------------------------------------
\* User input: inject or spawn.

\* C12: a step that processes a UserInput appends one item to pending_input
\* and spawns nothing when a task is current, and otherwise spawns exactly one
\* task, under the id of the submission, which the next step of the loop
\* installs as current_task; the loop never installs a task over a current one.
InjectOrSpawnOnce ==
    [][/\ (OpUserInput \/ OpUserInputEmpty) =>
             IF current_task # NoTask
             THEN /\ Len(pending_input') = Len(pending_input) + 1
                  /\ SubSeq(pending_input', 1, Len(pending_input)) = pending_input
                  /\ tasks' = tasks /\ loop' = loop /\ current_task' = current_task
             ELSE /\ ~Spawned(tasks[nsub + 1]) /\ tasks'[nsub + 1].kind = "regular"
                  /\ \A t \in SubIds \ {nsub + 1} : tasks'[t] = tasks[t]
                  /\ loop' = [pc |-> "set_task", sub |-> nsub + 1]
                  /\ pending_input' = pending_input
       /\ SetTask => current_task = NoTask /\ current_task' = loop.sub]_vars

\* the first input spawned a task that is current and the second one was
\* queued behind it
SpawnedThenQueued ==
    /\ current_task = 1 /\ Spawned(tasks[1])
    /\ pending_input = <<UserMsg(2)>> /\ ~Spawned(tasks[2])

----------------------------------------------------------------------------
\* Pending input at the start of a turn.

Occurrences(s, x) == Cardinality({i \in DOMAIN s : s[i] = x})

\* C13: the input of a turn's request holds the input of every submission at
\* most once, and an input that was queued and drained for this turn is in
\* the history once and in the request once.
PendingInputOnce ==
    \A t \in SubIds :
        (tasks[t].kind = "regular" /\ tasks[t].pc \in {"open_stream", "stream", "sleep"}) =>
            \A n \in SubIds :
                /\ Occurrences(history, UserMsg(n)) <= 1
                /\ Occurrences(tasks[t].prompt, UserMsg(n)) <= 1

----------------------------------------------------------------------------
\* Shutdown.

ShutdownDone == \E i \in DOMAIN events : events[i].msg = "ShutdownComplete"
\* an Error event of the Shutdown submission precedes its ShutdownComplete
ErrorBeforeComplete ==
    \E i, j \in DOMAIN events :
        /\ i < j /\ events[i].id = events[j].id
        /\ events[i].msg = "Error" /\ events[j].msg = "ShutdownComplete"

\* C14: when ShutdownComplete has been sent, the writer of the rollout has
\* written all that was enqueued and has shut down, or the shutdown of the
\* writer failed and an Error event of the same submission was sent before;
\* and once the loop has taken a Shutdown it takes no further submission.
ShutdownAfterFlush ==
    /\ [](ShutdownDone =>
             \/ recorder.state = "closed" /\ recorder.flushed
             \/ recorder.state = "failed" /\ ErrorBeforeComplete)
    /\ [][loop.pc \in {"shutdown", "shutdown_complete", "exited"} =>
             nsub' = nsub /\ loop'.pc # "recv"]_vars

\* the session was shut down after a task had recorded items, and the writer
\* had written them
ShutdownWithRollout ==
    /\ ShutdownDone /\ recorder.state = "closed" /\ loop.pc = "exited"
    /\ \E i \in DOMAIN rollout : rollout[i] = UserMsg(1)

\* C15: when ShutdownComplete has been sent no task is current and none is
\* running, and no step after it sends an event, starts a command or records
\* an item.
ShutdownAbortsTask ==
    /\ [](ShutdownDone =>
             /\ current_task = NoTask
             /\ \A t \in SubIds : Spawned(tasks[t]) => IsFinished(tasks[t]))
    /\ [][ShutdownDone =>
             /\ events' = events /\ history' = history
             /\ \A t \in SubIds : ~BeginsExec(t)]_vars

----------------------------------------------------------------------------
\* The tools of a sub-agent.

\* the alias group an allowlist brings in
shell_alias_group(A) == IF A \cap shell_aliases # {} THEN shell_aliases ELSE {}

\* C16: the filter returns every tool when there is no allowlist, no tool for
\* the empty allowlist, and otherwise the tools of the input, in the order of
\* the input, whose name is in the allowlist or in the group of shell aliases
\* when the allowlist names one of them.
FilterKeepsAllowedAndAliases ==
    (pure.fn = "filter_tools_for_agent" /\ pure.done) =>
        LET A == pure.allowed.names
            Kept(x) == tool_name(x) \in A \cup shell_alias_group(A)
        IN /\ ~pure.allowed.some => pure.out = pure.tools
           /\ (pure.allowed.some /\ A = {}) => pure.out = <<>>
           /\ pure.allowed.some => pure.out = SelectSeq(pure.tools, Kept)
           /\ pure.allowed.some => \A i \in DOMAIN pure.out : Kept(pure.out[i])

\* the allowlist names shell only and the filter kept the other shell tools
\* of the input and dropped a tool
ShellBringsItsAliases ==
    /\ pure.fn = "filter_tools_for_agent" /\ pure.done
    /\ pure.allowed = Some({"shell"})
    /\ pure.tools = <<Tool("WebSearch", ""), Tool("LocalShell", ""),
                      Tool("Function", "exec_command")>>
    /\ pure.out = <<Tool("LocalShell", ""), Tool("Function", "exec_command")>>

\* C17: a command that a sub-agent run is about to start, or has started, was
\* asked for by a call of a tool that the run's request presented, that is a
\* tool of the filtered tool list.
NestedCallsWithinAllowlist ==
    \A t \in SubIds :
        (tasks[t].nested /\ tasks[t].pc \in {"exec_begin", "exec_run"}) =>
            tasks[t].call.tag \in Presented(tasks[t].tools)

\* the task is inside a sub-agent run whose agent was found
InRun(tr) == tr.sa # NoItem /\ tr.pc \notin {"rec_snap", "rec_items", "rec_hist",
                                            "sa_describe", "sa_return"}

\* C18: the tool list of a sub-agent run names no sub-agent tool, and no step
\* of a task that is inside a sub-agent run starts another run: the run it is
\* in stays the same and no SubAgentStart event is sent at its sub_id.
NoSubAgentRecursion ==
    /\ [](\A t \in SubIds :
             InRun(tasks[t]) => Presented(tasks[t].tools) \cap SubAgentToolNames = {})
    /\ [][\A t \in SubIds :
             (InRun(tasks[t]) /\ tasks'[t].sa # NoItem) =>
                 /\ tasks'[t].sa = tasks[t].sa
                 /\ \A i \in DOMAIN events' :
                       (i > Len(events) /\ events'[i].id = t) =>
                           events'[i].msg # "SubAgentStart"]_vars

\* a run of the agent without allowlist was presented the other tools, and
\* a nested call of a sub-agent tool was denied in it
NestedSubAgentDenied ==
    \E t \in SubIds :
        /\ InRun(tasks[t]) /\ tasks[t].sa.arg = "agent" /\ tasks[t].denied
        /\ Presented(tasks[t].tools) = {"shell", "view_image"}

\* C19: a sub-agent run that has met a nested streaming failure (the stream
\* did not open, yielded an error, or ended without Completed) is at its end
\* with success = false: it takes no further nested step, its result is the
\* failure, and the SubAgentEnd it sends and records says so.
NestedFailureEndsRun ==
    \A t \in SubIds :
        tasks[t].nfail =>
            /\ tasks[t].result = "failed"
            /\ tasks[t].pc \in {"sa_end", "rec_snap", "rec_items", "rec_hist", "sa_return"}
            /\ tasks[t].pc \in {"rec_items", "rec_hist"} =>
                   tasks[t].rec = <<SubAgentEnd(FALSE)>>

----------------------------------------------------------------------------
\* Token usage.

\* C20: the session's token aggregate is the sum of the usage the provider
\* has reported in the Completed events of all responses, those of parent
\* turns and those of nested sub-agent turns.
TokenAggregateIsSum == token_info = usage

----------------------------------------------------------------------------
\* The order of what a sub-agent run shows.

\* the function-call output of call c exists: the turn holds it, or it is
\* being recorded, or the history has it
OutputProduced(c) ==
    \/ \E t \in SubIds :
          \/ \E i \in DOMAIN tasks[t].out : tasks[t].out[i].resp.kind = "FunctionCallOutput"
                                            /\ tasks[t].out[i].resp.cid = c
          \/ \E i \in DOMAIN tasks[t].rec : tasks[t].rec[i].kind = "FunctionCallOutput"
                                            /\ tasks[t].rec[i].cid = c
    \/ \E i \in DOMAIN history : history[i].kind = "FunctionCallOutput" /\ history[i].cid = c

\* C21: when the SubAgentEnd{success: true} of a subagent_run call has been
\* sent, the SubAgentStart of that call was sent before it, the function-call
\* output of the call exists already, and the TaskComplete of the task has not
\* been sent before it.
SubAgentRunOrder ==
    \A j \in DOMAIN events :
        (events[j].msg = "SubAgentEnd" /\ events[j].success) =>
            /\ \E i \in 1..(j - 1) : events[i] = Event(events[j].id, "SubAgentStart", events[j].cid)
            /\ OutputProduced(events[j].cid)
            /\ \A k \in 1..j : ~(events[k].msg = "TaskComplete" /\ events[k].id = events[j].id)

----------------------------------------------------------------------------
\* One-shot approvals.

\* the step takes decision d out of the channel of a request of task t
Receives(t, d) ==
    tasks[t].pc = "await_approval" /\ tasks[t].rx = d /\ tasks'[t].rx = "none"

\* C22: a step that receives the decision Approved on an approval request
\* leaves approved_commands as it was, so that the command is assessed anew
\* the next time; approved_commands changes only in a step that receives
\* ApprovedForSession, which adds the command of the request.
ApprovedIsOneShot ==
    [][/\ \A t \in SubIds : Receives(t, "Approved") => approved_commands' = approved_commands
       /\ approved_commands' # approved_commands =>
             \E t \in SubIds :
                 /\ Receives(t, "ApprovedForSession")
                 /\ approved_commands' = approved_commands \cup {tasks[t].call.arg}]_vars

----------------------------------------------------------------------------
\* The retry of a command that failed in the sandbox.

Begins(c) ==
    Cardinality({i \in DOMAIN events : events[i].msg = "ExecCommandBegin" /\ events[i].cid = c})
\* an approval request for call c was sent after a run of c had ended
RetryRequested(c) ==
    \E i, j \in DOMAIN events :
        /\ i < j
        /\ events[i].msg = "ExecCommandEnd" /\ events[i].cid = c
        /\ events[j].msg = "ExecApprovalRequest" /\ events[j].cid = c
RetryLog(c) == {r \in call_log : r.cid = c /\ r.safety = "SandboxError"}
CallIds == 1..MaxProv
LastOut(tr) == tr.out[Len(tr.out)].resp

\* C23: a command runs at most twice; it has run a second time only when a
\* retry request was sent after its first run and Approved or
\* ApprovedForSession was received for it, and a retry request is sent only
\* under UnlessTrusted or OnFailure; a retry whose request was denied or lost
\* its channel returns the refusal and the command has run once; and under
\* Never or OnRequest a sandbox error of the first run returns the failure to
\* the turn in the same step, with no request and no second run.
RetryOnlyAfterApproval ==
    /\ [](\A c \in CallIds :
             /\ Begins(c) <= 2
             /\ Begins(c) = 2 =>
                    /\ RetryRequested(c)
                    /\ \E r \in RetryLog(c) : r.decision \in {"Approved", "ApprovedForSession"}
             /\ (RetryRequested(c) \/ RetryLog(c) # {}) =>
                    approval_policy \in {"UnlessTrusted", "OnFailure"}
             /\ \A r \in RetryLog(c) :
                    r.decision \notin {"Approved", "ApprovedForSession"} =>
                        Begins(c) = 1 /\ r.output = "exec command rejected by user")
    /\ [](\A t \in SubIds : tasks[t].retry => approval_policy \in {"UnlessTrusted", "OnFailure"})
    /\ [][\A t \in SubIds, e \in {"Denied", "Timeout"} :
             (ExecFail(t, e) /\ ~tasks[t].retry /\ approval_policy \in {"Never", "OnRequest"}) =>
                 /\ tasks'[t].pc = "stream"
                 /\ LastOut(tasks'[t]) = FunctionCallOutput(tasks[t].call.cid, "failed in sandbox")]_vars

\* under OnFailure a command failed in the sandbox, its retry was approved and
\* it has run a second time and returned its output
RerunAfterApprovedRetry ==
    /\ approval_policy = "OnFailure"
    /\ \E c \in CallIds :
          /\ Begins(c) = 2
          /\ \E r \in RetryLog(c) : r.decision = "Approved"
          /\ \E t \in SubIds : tasks[t].pc = "stream" /\ tasks[t].out # <<>>
                                /\ LastOut(tasks[t]) = FunctionCallOutput(c, "output")

----------------------------------------------------------------------------
\* Begin and end events of a call.

\* the events msg of call c among the first k events
CountUpTo(k, msg, c) ==
    Cardinality({i \in 1..k : events[i].msg = msg /\ events[i].cid = c})
\* the begin events of c among the first k that no end event has matched
Unmatched(k, c) == CountUpTo(k, "ExecCommandBegin", c) - CountUpTo(k, "ExecCommandEnd", c)
\* a task is between the begin event of call c and the return of its execution
Executing(c) == \E t \in SubIds : tasks[t].pc = "exec_run" /\ tasks[t].call.cid = c

\* C24: for every call_id the begin and end events alternate and start with a
\* begin: after any number of events the begins exceed the ends by at most
\* one and never fall behind, so an end follows an unmatched begin of the same
\* call_id; and a begin is unmatched exactly while its execution has not
\* returned, be it the first run or the re-run after a sandbox failure.
BeginEndAlternate ==
    \A c \in CallIds :
        /\ \A k \in 0..Len(events) : Unmatched(k, c) \in {0, 1}
        /\ \A k \in 1..Len(events) :
              /\ (events[k].msg = "ExecCommandBegin" /\ events[k].cid = c) =>
                     Unmatched(k - 1, c) = 0
              /\ (events[k].msg = "ExecCommandEnd" /\ events[k].cid = c) =>
                     Unmatched(k - 1, c) = 1
        /\ Unmatched(Len(events), c) = 1 <=> Executing(c)

\* a command failed in the sandbox and its re-run failed as well: two begins
\* and two ends of one call_id, and the output of the failed retry
RerunBeganAndEnded ==
    \E c \in CallIds :
        /\ CountUpTo(Len(events), "ExecCommandBegin", c) = 2
        /\ CountUpTo(Len(events), "ExecCommandEnd", c) = 2
        /\ \E t \in SubIds : tasks[t].pc = "stream" /\ tasks[t].out # <<>>
                              /\ LastOut(tasks[t]) = FunctionCallOutput(c, "retry failed")

----------------------------------------------------------------------------
\* The end of a compact task.

\* the messages of the events sent at sub_id t, in order
RECURSIVE MsgsOf(_, _)
MsgsOf(evs, t) ==
    IF evs = <<>> THEN <<>>
    ELSE (IF Head(evs).id = t THEN <<Head(evs).msg>> ELSE <<>>) \o MsgsOf(Tail(evs), t)
LastThree(s) == IF Len(s) < 3 THEN <<>> ELSE SubSeq(s, Len(s) - 2, Len(s))

\* the history holds the final assistant message and nothing else
OnlyFinalAssistant(h) == Len(h) <= 1 /\ \A i \in DOMAIN h : h[i] = AssistantMsg
HasAssistant(h) == \E i \in DOMAIN h : h[i].kind = "Message" /\ h[i].tag = "assistant"

\* the step sends the TaskComplete of compact task t, which was not aborted
CompactCompletes(t) ==
    /\ tasks[t].kind = "compact" /\ ~tasks[t].aborted
    /\ tasks[t].pc = "task_complete" /\ tasks'[t].pc = "done"
\* the step is the truncation of compact task t
CompactTruncates(t) ==
    tasks[t].kind = "compact" /\ tasks[t].pc = "truncate" /\ tasks'[t].pc = "compact_msg"
\* the events of a completed compact task end with the TokenCount of the
\* Completed it drained to, the completion marker and TaskComplete
EndsInOrder(t) ==
    LastThree(MsgsOf(events', t)) = <<"TokenCount", "AgentMessage", "TaskComplete">>

\* C25: at the step that sends the TaskComplete of a compact task the
\* history holds only the final assistant message, and the task's events end
\* with TokenCount, AgentMessage, TaskComplete.
CompactLeavesSummary ==
    [][\A t \in SubIds :
          CompactCompletes(t) => OnlyFinalAssistant(history') /\ EndsInOrder(t)]_vars

\* The part of C25 that holds: the truncation of a compact task leaves in the
\* history only the final assistant message it held (nothing when it held
\* none), the steps the compact task takes after it leave the history alone,
\* and at its TaskComplete the task's events end with TokenCount,
\* AgentMessage, TaskComplete.
CompactTruncatesToSummary ==
    [][\A t \in SubIds :
          /\ CompactTruncates(t) =>
                /\ OnlyFinalAssistant(history')
                /\ history' # <<>> <=> HasAssistant(history)
          /\ (tasks[t].kind = "compact" /\ tasks[t].pc \in {"compact_msg", "task_complete"}
                /\ tasks'[t] # tasks[t]) => history' = history
          /\ CompactCompletes(t) => EndsInOrder(t)]_vars

----------------------------------------------------------------------------
\* The retries of a compact task.

\* C26: when an attempt of a compact task fails with error e after some
\* retries, the task retries exactly when run_turn would retry on e after as
\* many retries, and then sleeps the delay run_turn would sleep: the delay the
\* server gave when there is one, the back-off otherwise.
CompactRetriesAsTurn ==
    [][\A t \in SubIds, e \in ErrKinds :
          (CompactOpenFail(t, e) \/ CompactStreamFail(t, e)) =>
              /\ (tasks'[t].pc = "sleep") <=> ShouldRetry(e, tasks[t].retries)
              /\ tasks'[t].pc = "sleep" =>
                     tasks'[t].delay = RetryDelay(e, tasks[t].retries + 1)]_vars

----------------------------------------------------------------------------
\* C27

Dispatched == pure.fn = "handle_response_item" /\ pure.done
UnknownFunction(item, env) ==
    /\ item.kind = "FunctionCall"
    /\ item.name \notin BuiltinNames
    /\ item.name \notin env.mcp_tools

----------------------------------------------------------------------------
\* C28

Formatted == pure.fn = "format_exec_output_str" /\ pure.done

\* C28: for every exec output, the model-facing formatted text has byte length at
\* most 10 KiB and at most 256 lines, counting the elision marker and the lines
\* around it.
FormattedWithinCaps ==
    Formatted =>
        /\ byte_len(pure.out) <= 10 * 1024
        /\ Len(lines_of(pure.out)) <= 256

----------------------------------------------------------------------------
\* C29

Rendered == pure.fn = "render_template" /\ pure.done
Fits(s) == str_len(s) <= 64 * 1024
\* the result the contract prescribes for the text s
Prescribed(s) == IF Fits(s) THEN OkText(s) ELSE OutputTooLarge

\* the decimal numeral of k, for k below 100
DigitOf(n) == CHOOSE c \in AsciiDigits : digit_value[c] = n
Numeral(k) == IF k < 10 THEN <<DigitOf(k)>> ELSE <<DigitOf(k \div 10), DigitOf(k % 10)>>
\* the template is "${N}" for a decimal N >= 1
IsIndexTemplate(t) ==
    /\ Len(t) >= 4
    /\ t[1] = "$" /\ t[2] = "{" /\ t[Len(t)] = "}"
    /\ \A i \in 3..(Len(t) - 1) : t[i] \in AsciiDigits
    /\ \E i \in 3..(Len(t) - 1) : t[i] # "0"
NthOrEmpty(args, t) ==
    LET n == strip_zeros(SubSeq(t, 3, Len(t) - 1))
    IN IF \E k \in 1..Len(args) : Numeral(k) = n
       THEN args[CHOOSE k \in 1..Len(args) : Numeral(k) = n]
       ELSE <<>>

\* C29: for all argument lists, render("$*") is the arguments joined by single
\* spaces, render("$$") is "$", render("${N}") is the N-th argument (1-based,
\* multi-digit N) or the empty string when absent, and a rendering whose output
\* exceeds 64 KiB fails with OutputTooLarge instead of returning text.
RenderContract ==
    Rendered =>
        /\ pure.template = <<"$", "*">> => pure.out = Prescribed(join_space(pure.args))
        /\ pure.template = <<"$", "$">> => pure.out = OkText(<<"$">>)
        /\ IsIndexTemplate(pure.template) =>
              pure.out = Prescribed(NthOrEmpty(pure.args, pure.template))
        /\ pure.out.ok => Fits(pure.out.text)

----------------------------------------------------------------------------
\* C30

\* a placeholder the renderer knows starts at position i
KnownAt(t, i) ==
    /\ t[i] = "$"
    /\ \/ peek(t, i + 1) \in {"$", "*"} \cup (AsciiDigits \ {"0"})
       \/ str_peek_consume(t, i + 1, ARGUMENTS)
       \/ /\ peek(t, i + 1) = "{"
          /\ \E k \in (i + 3)..Len(t) :
                /\ t[k] = "}"
                /\ \A j \in (i + 2)..(k - 1) : t[j] \in AsciiDigits
                /\ \E j \in (i + 2)..(k - 1) : t[j] # "0"
\* the template has a '$', and no '$' of it starts a known placeholder
OnlyUnknownPlaceholders(t) ==
    /\ "$" \in chars_of(t)
    /\ \A i \in 1..Len(t) : t[i] = "$" => ~KnownAt(t, i)

\* C30: unknown placeholders are preserved verbatim: a template whose '$'
\* sequences are all unknown ("${0}", "${}", "${x}", "$x", a trailing "$") is
\* rendered character for character as written.
UnknownPreserved ==
    (Rendered /\ OnlyUnknownPlaceholders(pure.template) /\ Fits(pure.template)) =>
        pure.out = OkText(pure.template)

----------------------------------------------------------------------------
\* C31

Normalized == pure.fn = "normalize_id" /\ pure.done
\* the name has a letter or a digit
HasUsable(s) == \E i \in 1..Len(s) : s[i] \in LowerAlnum \cup UpperChars

\* C31: normalize_id is idempotent and canonical: normalizing a result again
\* returns it; the result holds only characters of [a-z0-9-], has no hyphen at
\* either end and no two adjacent hyphens, is never empty, and is "unnamed" when
\* the name is empty or has no usable character.
NormalizeIdCanonical ==
    Normalized =>
        LET r == pure.out
        IN /\ normalize_id(r) = r
           /\ \A i \in 1..Len(r) : r[i] \in LowerAlnum \cup {"-"}
           /\ r # <<>>
           /\ r[1] # "-" /\ r[Len(r)] # "-"
           /\ \A i \in 1..(Len(r) - 1) : ~(r[i] = "-" /\ r[i + 1] = "-")
           /\ ~HasUsable(pure.name) => r = Unnamed

HyphensCollapsedAndTrimmed ==
    /\ Normalized
    /\ pure.name = <<"_", "A", " ", "7">>
    /\ pure.out = <<"a", "-", "7">>

----------------------------------------------------------------------------
\* C32

Discovered == pure.fn = "discover_and_load_agents" /\ pure.done
\* the names a directory defines: its .md files that parse
DefinedIn(dir) == {dir[i].name : i \in {j \in 1..Len(dir) : dir[j].kind = "valid"}}

\* C32: agent discovery gives project definitions precedence: for every agent
\* name defined in both the user and the project agents directory the registry
\* holds the project definition, names defined in only one directory are kept,
\* and the registry holds exactly one definition per name.
ProjectOverridesUser ==
    Discovered =>
        LET user == DefinedIn(pure.user_dir)
            project == DefinedIn(pure.project_dir)
        IN /\ DOMAIN pure.out = user \cup project
           /\ \A n \in project : pure.out[n] = AgentDef(n, "project")
           /\ \A n \in user \ project : pure.out[n] = AgentDef(n, "user")

OverriddenAndKept ==
    /\ Discovered
    /\ DefinedIn(pure.user_dir) = {"reviewer", "tester"}
    /\ DefinedIn(pure.project_dir) = {"reviewer", "docs"}
    /\ pure.out["reviewer"].description = "project"
    /\ pure.out["tester"].description = "user"

----------------------------------------------------------------------------
\* C33

TerminalMsgs == {"TaskComplete", "TurnAborted"}
Terminals(t) == {i \in DOMAIN events : events[i].id = t /\ events[i].msg \in TerminalMsgs}
\* the task's body has returned or was dropped, and no event of it is in flight
Over(t) == IsFinished(tasks[t]) /\ \A e \in detached : e.id # t

\* C33: every task that emits TaskStarted emits exactly one terminal event at its
\* sub_id, TaskComplete or TurnAborted: never both, never neither once the task
\* is over, and no event of the task follows its terminal event; for regular and
\* compact tasks, on success, failure and interruption.
OneTerminalEvent ==
    \A t \in SubIds :
        HasEvent(t, "TaskStarted") =>
            /\ Cardinality(Terminals(t)) <= 1
            /\ \A i \in Terminals(t) : \A j \in DOMAIN events : j > i => events[j].id # t
            /\ Over(t) => Terminals(t) # {}

----------------------------------------------------------------------------
\* C34

\* submission n was queued in pending_input while task t was current: t is the
\* last task spawned before n, and n spawned no task
QueuedBehind(n, t) ==
    /\ t < n /\ n <= nsub
    /\ Spawned(tasks[t])
    /\ \A m \in (t + 1)..n : ~Spawned(tasks[m])
Completed(t) ==
    /\ HasEvent(t, "TaskComplete")
    /\ ~HasEvent(t, "TurnAborted") /\ ~tasks[t].aborted

\* C34: user input accepted into pending_input while a task is current is never
\* stranded: unless the task is interrupted, when the task has emitted
\* TaskComplete the input is in the history (the task drained it, recorded it and
\* sent it with its next request) and no longer in pending_input.
PendingInputNeverStranded ==
    \A t \in SubIds : Completed(t) =>
        \A n \in SubIds : QueuedBehind(n, t) =>
            /\ Occurrences(history, UserMsg(n)) >= 1
            /\ Occurrences(pending_input, UserMsg(n)) = 0

----------------------------------------------------------------------------
\* C35

\* C35: whenever current_task is non-empty, the task it names is still running:
\* a task body that has returned (empty input, normal completion, failure,
\* compact failure) no longer occupies current_task, so no user input is queued
\* into pending_input behind a task that will not consume it.
CurrentTaskIsRunning ==
    /\ [](current_task # NoTask => ~IsFinished(tasks[current_task]))
    /\ [][(OpUserInput /\ pending_input' # pending_input) =>
             ~IsFinished(tasks[current_task])]_vars

----------------------------------------------------------------------------
\* C36

\* the ExecApprovalRequest event of call c of task t has been sent
Announced(t, c) ==
    \E i \in DOMAIN events :
        events[i].id = t /\ events[i].msg = "ExecApprovalRequest" /\ events[i].cid = c
\* the front-end has seen a request of task t for another call than c
AnnouncedOther(t, c) ==
    \E i \in DOMAIN events :
        events[i].id = t /\ events[i].msg = "ExecApprovalRequest" /\ events[i].cid # c
\* the submission hands decision d to the request that task t is waiting on
Delivers(t, d) ==
    /\ OpExecApproval(t, d)
    /\ t \in pending_approvals /\ tasks[t].rx = "open"
    /\ tasks'[t].rx = d

\* C36: an approval decision is applied only to the approval request it answers:
\* a decision submitted for one request of a task, a duplicate or late one
\* included, never decides a different, later request of that task. A decision
\* can answer only a request whose ExecApprovalRequest event has been sent, so
\* once a task has announced a request, no decision reaches a request for
\* another call that is not announced yet.
DecisionAnswersItsRequest ==
    [][\A t \in SubIds, d \in Decisions :
          (Delivers(t, d) /\ AnnouncedOther(t, tasks[t].call.cid)) =>
              Announced(t, tasks[t].call.cid)]_vars

----------------------------------------------------------------------------
\* C37

\* positions of the TurnAborted events of task t
AbortedAt(t) == {i \in DOMAIN events : events[i].id = t /\ events[i].msg = "TurnAborted"}
\* the TurnAborted of task t is still held by the detached sender
AbortUndelivered(t) == \E e \in detached : e.id = t /\ e.msg = "TurnAborted"

\* C37: events are delivered in causal order across tasks: the TurnAborted of an
\* aborted task is delivered before any event of a task spawned by a later
\* submission, and the aborted task's own events all precede its TurnAborted.
\* While a TurnAborted is undelivered no later task has an event; a delivered
\* TurnAborted has every event of a later task and no event of its own task
\* behind it.
AbortedBeforeSuccessor ==
    \A t \in SubIds :
        /\ AbortUndelivered(t) =>
               \A j \in DOMAIN events : events[j].id <= t
        /\ \A i \in AbortedAt(t) :
               /\ \A j \in DOMAIN events : j < i => events[j].id <= t
               /\ \A j \in DOMAIN events : j > i => events[j].id # t

----------------------------------------------------------------------------
\* C38

\* the step ends an attempt of regular task t with an error that is retried
FailsRetryably(t) ==
    /\ tasks[t].kind = "regular"
    /\ tasks[t].pc # "sleep"
    /\ tasks'[t].pc = "sleep"

\* C38: a turn attempt that fails with a retryable error leaves history and
\* rollout as they were before the attempt, so every retry sends the same input
\* and nothing produced by the failed attempt is recorded: at the step that
\* ends the attempt with a retried error the history and the rollout have the
\* lengths they had when the attempt began, and the prompt is not changed.
FailedAttemptLeavesNoTrace ==
    [][\A t \in SubIds : FailsRetryably(t) =>
          /\ Len(history') = tasks[t].hist0
          /\ Len(rollout') = tasks[t].roll0
          /\ tasks'[t].prompt = tasks[t].prompt]_vars

----------------------------------------------------------------------------
\* C39

\* task n was spawned by a submission later than the one of task t
SpawnedAfter(n, t) == n > t /\ Spawned(tasks[n])

\* C39: the truncation performed by a finishing compact task never discards
\* items of another task: at the truncating step of compact task t, every item
\* that a task spawned after t released current_task has recorded in the
\* history is still in the history afterwards.
TruncationSparesLaterTasks ==
    [][\A t \in SubIds : CompactTruncates(t) =>
          \A n \in SubIds : SpawnedAfter(n, t) =>
              Occurrences(history', UserMsg(n)) = Occurrences(history, UserMsg(n))]_vars

====
